---- MODULE Spec2Model ----
(***************************************************************************)
(* A model of the RAG engine of the portal: the chunker, the vector index  *)
(* client, the retrieval path and the streamed answer, as written in       *)
(* fasi/05-sistema-rag-avanzato.md and fasi/04-sistema-chat-ai.md.         *)
(*                                                                         *)
(* The specifications share the variables; each one moves its own group  *)
(* and leaves the others at their initial value:                           *)
(*   SpecChunk     SemanticChunkingStrategy.chunk_text on bounded texts    *)
(*   SpecScenario  the same chunker on the 900-token, 3-paragraph document *)
(*   SpecChunkers  both chunking strategies, for what they share           *)
(*   SpecExtract   the file handle of a document processor's call          *)
(*   SpecIndex     index_document / search / delete on the vector index    *)
(*   SpecQuery     query_knowledge_base on the stores of a few points      *)
(*   SpecRerank    the same, on stores whose candidates tie               *)
(*   SpecEmbed     _generate_embeddings_batch                              *)
(*   SpecJob       an indexing job of IndexingService                      *)
(*   SpecBatchEmbed the embeddings of the files a job indexes together    *)
(*   SpecRegistry  the jobs started on one IndexingService                 *)
(*   SpecStream    the streamed answer and its transport                   *)
(*   SpecAuth      the frontend auth store                                 *)
(***************************************************************************)
EXTENDS Integers, Sequences, FiniteSets, TLC

VARIABLES
    \* ---- chunker
    text,           \* the text handed to chunk_text
    max_chunk_size, \* SemanticChunkingStrategy.max_chunk_size
    chunks,         \* the list chunk_text returned
    chunkPc,        \* "ready" | "chunked"
    \* ---- vector index
    store,          \* the points of the Qdrant collection "documents"
    nextPointId,    \* the uuid4 values handed out so far
    clock,          \* datetime.utcnow(), one tick per index_document call
    ix,             \* the index_document call under way or last returned
    lastSearch,     \* the last search_similar call and what it returned
    deleted,        \* history: documents deleted and not written since
    upserts,        \* history: the point ids of every add_documents call
    \* ---- retrieval
    kb,             \* the query_knowledge_base call under way or last returned
    \* ---- streamed answer
    gen,            \* the async generator of the answer: its position and locals
    emitted,        \* the events the generator has yielded
    delivered,      \* the events websocket.send_text has handed to the caller
    connected,      \* the caller's connection is open
    chat_messages,  \* the chat_messages collection
    message_count,  \* chat_sessions.message_count of the session
    \* ---- fixed-size chunker
    fx,              \* the FixedSizeChunkingStrategy.chunk_text call: arguments, loop, result
    \* ---- embeddings of a document's chunks
    eb,              \* the _generate_embeddings_batch call: arguments, loop, requests in flight
    \* ---- indexing job
    job,            \* the IndexingJob and the position of _execute_indexing_job
    tasks,          \* the _index_single_file tasks of the batch under way, by file
    indexed_documents,  \* the files whose index_document has returned
    indexed_files,  \* the files with a record in db.indexed_files
    job_record,      \* what _update_job_status wrote last
    \* ---- embeddings of the files of one job batch
    calls,           \* the _generate_embeddings_batch call of each file indexed together
    \* ---- the jobs of the indexing service
    current_jobs,   \* IndexingService.current_jobs: the job held under each job_id
    now,            \* datetime.utcnow(), in ticks
    started,         \* history: the job_id each start_indexing_job call returned
    \* ---- frontend auth store
    auth,           \* the state of useAuthStore
    localStorage,   \* the items auth-token and refresh-token
    requests,       \* the login, register and checkAuth calls awaiting authService
    lastCall,        \* history: the store function that ran last
    \* ---- document processors
    hx              \* an extract_text / extract_metadata call and the handle it opened

chunkVars == <<text, max_chunk_size, chunks, chunkPc>>

indexVars == <<store, nextPointId, clock, ix, lastSearch, deleted, upserts>>

queryVars == <<kb>>

streamVars == <<gen, emitted, delivered, connected, chat_messages, message_count>>

fixedVars == <<fx>>

embedVars == <<eb>>

jobVars == <<job, tasks, indexed_documents, indexed_files, job_record>>

callVars == <<calls>>

registryVars == <<current_jobs, now, started>>

authVars == <<auth, localStorage, requests, lastCall>>

extractVars == <<hx>>

vars == <<chunkVars, indexVars, queryVars, streamVars, fixedVars, embedVars, jobVars, callVars, registryVars, authVars, extractVars>>

(***************************************************************************)
(* Bounds of the model.                                                    *)
(***************************************************************************)
MaxParagraphs == 2
MaxSentences == 2
MaxSentenceTokens == 2
MaxPieces == 3
MaxChunkSize == 3

\* SemanticChunkingStrategy.__init__: max_chunk_size: int = 512
DefaultMaxChunkSize == 512

(***************************************************************************)
(* Texts.  A text is its list of paragraphs (text.split('\n\n')); a        *)
(* paragraph is the list of its sentences (_split_by_sentences), each      *)
(* sentence given by its token count len(tokenizer.encode(sentence)).  The *)
(* tokenizer is tiktoken's: what a separator inserted between two pieces   *)
(* adds to the encoding of the joined text depends on the characters       *)
(* around it ("\n\n" after a letter is a token of its own; " " before a    *)
(* word joins that word's token), so a text also carries the cost in       *)
(* tokens of its "\n\n" joins and of its " " joins.                        *)
(***************************************************************************)
SepTokenChoices == {0, 1}

Paragraphs == UNION {[1..n -> 1..MaxSentenceTokens] : n \in 0..MaxSentences}

ParagraphLists == UNION {[1..n -> Paragraphs] : n \in 1..MaxParagraphs}

RECURSIVE SumSeq(_)
SumSeq(s) == IF s = <<>> THEN 0 ELSE Head(s) + SumSeq(Tail(s))

RECURSIVE TotalSentences(_)
TotalSentences(ps) == IF ps = <<>> THEN 0 ELSE Len(Head(ps)) + TotalSentences(Tail(ps))

Texts ==
    {t \in [paras : ParagraphLists, paraSep : SepTokenChoices, sentSep : SepTokenChoices] :
        TotalSentences(t.paras) <= MaxPieces}

\* len(self.tokenizer.encode(paragraph)): the sentences and the blanks between them.
ParagraphTokens(t, p) ==
    SumSeq(t.paras[p]) + (IF Len(t.paras[p]) > 1 THEN t.sentSep * (Len(t.paras[p]) - 1) ELSE 0)

\* A piece of a chunk's text: a whole paragraph (sent = 0) or one sentence of a
\* paragraph, with the tokens the separator written before it adds.
ParagraphPiece(t, p) == [para |-> p, sent |-> 0, tokens |-> ParagraphTokens(t, p), sep |-> 0]

SentencePiece(t, p, s) == [para |-> p, sent |-> s, tokens |-> t.paras[p][s], sep |-> 0]

\* len(self.tokenizer.encode(text)) of a chunk's text: pieces and separators.
RECURSIVE EncodedLength(_)
EncodedLength(pieces) ==
    IF pieces = <<>> THEN 0
    ELSE Head(pieces).tokens + Head(pieces).sep + EncodedLength(Tail(pieces))

\* _create_chunk: the chunk's text, and the metadata with chunk_index and token_count.
CreateChunk(pieces, metadata, chunk_index) ==
    [text |-> pieces,
     metadata |-> [chunk_index |-> chunk_index, token_count |-> EncodedLength(pieces)] @@ metadata]

\* current_chunk += sep + piece if current_chunk else piece
\* (an empty paragraph added to an empty current_chunk leaves it empty).
Joined(current_chunk, piece, sepTokens) ==
    IF current_chunk = <<>>
    THEN (IF piece.tokens = 0 THEN <<>> ELSE <<piece>>)
    ELSE Append(current_chunk, [piece EXCEPT !.sep = sepTokens])

\* Accumulate flushing as soon as the budget is reached, not when it is exceeded.
AccumulateFlushAtBudget(st, piece, sepTokens, metadata, maxSize) ==
    IF st.current_tokens + piece.tokens >= maxSize /\ st.current_chunk # <<>>
    THEN [chunks |-> Append(st.chunks, CreateChunk(st.current_chunk, metadata, Len(st.chunks))),
          current_chunk |-> IF piece.tokens = 0 THEN <<>> ELSE <<piece>>,
          current_tokens |-> piece.tokens]
    ELSE [chunks |-> st.chunks,
          current_chunk |-> Joined(st.current_chunk, piece, sepTokens),
          current_tokens |-> st.current_tokens + piece.tokens]

\* Accumulate losing the piece that caused a flush.
AccumulateDropOnFlush(st, piece, sepTokens, metadata, maxSize) ==
    IF st.current_tokens + piece.tokens > maxSize /\ st.current_chunk # <<>>
    THEN [chunks |-> Append(st.chunks, CreateChunk(st.current_chunk, metadata, Len(st.chunks))),
          current_chunk |-> <<>>,
          current_tokens |-> 0]
    ELSE [chunks |-> st.chunks,
          current_chunk |-> Joined(st.current_chunk, piece, sepTokens),
          current_tokens |-> st.current_tokens + piece.tokens]

\* One pass of either inner branch of chunk_text: flush current_chunk when the
\* piece would exceed the budget, else join the piece to it.  current_tokens
\* adds up the pieces' own token counts only.
Accumulate(st, piece, sepTokens, metadata, maxSize) ==
    IF st.current_tokens + piece.tokens > maxSize /\ st.current_chunk # <<>>
    THEN [chunks |-> Append(st.chunks, CreateChunk(st.current_chunk, metadata, Len(st.chunks))),
          current_chunk |-> IF piece.tokens = 0 THEN <<>> ELSE <<piece>>,
          current_tokens |-> piece.tokens]
    ELSE [chunks |-> st.chunks,
          current_chunk |-> Joined(st.current_chunk, piece, sepTokens),
          current_tokens |-> st.current_tokens + piece.tokens]

\* for sentence in sentences: ...
RECURSIVE SentenceLoop(_, _, _, _, _, _)
SentenceLoop(st, t, p, s, metadata, maxSize) ==
    IF s > Len(t.paras[p]) THEN st
    ELSE SentenceLoop(Accumulate(st, SentencePiece(t, p, s), t.sentSep, metadata, maxSize),
                      t, p, s + 1, metadata, maxSize)

\* for paragraph in paragraphs: ...
RECURSIVE ParagraphLoop(_, _, _, _, _)
ParagraphLoop(st, t, p, metadata, maxSize) ==
    IF p > Len(t.paras) THEN st
    ELSE ParagraphLoop(
            IF ParagraphTokens(t, p) > maxSize
            THEN SentenceLoop(st, t, p, 1, metadata, maxSize)
            ELSE Accumulate(st, ParagraphPiece(t, p), t.paraSep, metadata, maxSize),
            t, p + 1, metadata, maxSize)

\* SemanticChunkingStrategy.chunk_text
ChunkText(t, metadata, maxSize) ==
    LET st == ParagraphLoop([chunks |-> <<>>, current_chunk |-> <<>>, current_tokens |-> 0],
                            t, 1, metadata, maxSize)
    IN  IF st.current_chunk # <<>>
        THEN Append(st.chunks, CreateChunk(st.current_chunk, metadata, Len(st.chunks)))
        ELSE st.chunks

NoText == [paras |-> <<>>, paraSep |-> 0, sentSep |-> 0]

NoMetadata == [document_id |-> "none"]

ChunkIdle ==
    /\ text = NoText
    /\ max_chunk_size = 0
    /\ chunks = <<>>
    /\ chunkPc = "idle"

(***************************************************************************)
(* The vector index.  A point is [id, sim, text, document_id, chunk_index, *)
(* token_count, indexed_at]: its uuid, its vector (given by the cosine     *)
(* similarity, in percent, of that vector to the query vector under study) *)
(* and the payload add_documents writes.                                   *)
(***************************************************************************)
MaxIndexCalls == 2

DocumentIds == {"d1", "d2"}

DefaultLimit == 10
DefaultScoreThreshold == 70

\* The corpus index_document reads: a paragraph about the topic of the query
\* and one that is not, each above half of the chunking budget, so that a file
\* gives one chunk or two.
OnTopic == <<DefaultMaxChunkSize \div 2 + 1>>

OffTopic == <<DefaultMaxChunkSize \div 2 + 2>>

IndexTexts ==
    {[paras |-> ps, paraSep |-> 1, sentSep |-> 0] : ps \in {<<OnTopic>>, <<OnTopic, OffTopic>>}}

\* azure_ai.generate_embedding on this corpus, as the similarity of the vector
\* to the query vector: 0.92 for a text with the on-topic paragraph, else 0.40.
GenerateEmbedding(pieces) ==
    IF \E i \in DOMAIN pieces : pieces[i].tokens = OnTopic[1] THEN 92 ELSE 40

\* The suffixes of the files index_document is called on.
FileExtensions == {".pdf", ".PDF", ".exe"}

\* str.lower on those suffixes.
Lower(file_extension) == IF file_extension = ".PDF" THEN ".pdf" ELSE file_extension

\* The processors dictionary of DocumentProcessorFactory.
Processors ==
    [e \in {".pdf", ".docx", ".xlsx", ".html", ".htm", ".eml", ".txt"} |->
        CASE e = ".pdf" -> "PDFProcessor"
          [] e = ".docx" -> "DOCXProcessor"
          [] e = ".xlsx" -> "XLSXProcessor"
          [] e \in {".html", ".htm"} -> "HTMLProcessor"
          [] e = ".eml" -> "EMLProcessor"
          [] e = ".txt" -> "TXTProcessor"]

\* dict.get returns None for a missing key.
NoProcessor == "None"

\* A factory that falls back to the plain-text processor.
GetProcessorWithFallback(file_extension) ==
    IF Lower(file_extension) \in DOMAIN Processors
    THEN Processors[Lower(file_extension)] ELSE "TXTProcessor"

\* DocumentProcessorFactory.get_processor
GetProcessor(file_extension) ==
    IF Lower(file_extension) \in DOMAIN Processors
    THEN Processors[Lower(file_extension)] ELSE NoProcessor

NoFilter == <<>>

Filters == {NoFilter} \cup {[document_id |-> d] : d \in DocumentIds}

NoCall ==
    [pc |-> "idle", document_id |-> "none", file_ext |-> "none", text |-> NoText,
     indexed_at |-> 0, chunks |-> <<>>, embeddings |-> <<>>, point_ids |-> <<>>,
     failure |-> "none"]

NoSearch == [filters |-> NoFilter, score_threshold |-> 0, limit |-> 0, hits |-> <<>>, after_delete |-> FALSE]

IndexIdle ==
    /\ store = {}
    /\ nextPointId = 0
    /\ clock = 0
    /\ ix = NoCall
    /\ lastSearch = NoSearch
    /\ deleted = {}
    /\ upserts = {}

PointsOf(points, d) == {p \in points : p.document_id = d}

IdsOf(points) == {p.id : p \in points}

Range(f) == {f[i] : i \in DOMAIN f}

\* add_documents that stops after the first pair.
NewPointsFirstChunkOnly(chs, embeddings, base) ==
    {[id |-> base + i, sim |-> embeddings[i], text |-> chs[i].text,
      document_id |-> chs[i].metadata.document_id,
      chunk_index |-> chs[i].metadata.chunk_index,
      token_count |-> chs[i].metadata.token_count,
      indexed_at |-> chs[i].metadata.indexed_at] : i \in {j \in 1..Len(chs) : j = 1}}

\* add_documents: one PointStruct per (chunk, embedding) pair, each under a fresh uuid4.
NewPoints(chs, embeddings, firstId) ==
    {[id |-> firstId + i,
      sim |-> embeddings[i],
      text |-> chs[i].text,
      document_id |-> chs[i].metadata.document_id,
      chunk_index |-> chs[i].metadata.chunk_index,
      token_count |-> chs[i].metadata.token_count,
      indexed_at |-> chs[i].metadata.indexed_at] :
        i \in 1..(IF Len(chs) < Len(embeddings) THEN Len(chs) ELSE Len(embeddings))}

\* client.upsert: a point replaces the stored point of the same id, if any.
Upsert(points, new) == {p \in points : p.id \notin IdsOf(new)} \cup new

\* client.delete with the filter document_id = d, deleting only the first chunk.
DeleteFirstChunkOnly(points, d) == {p \in points : ~(p.document_id = d /\ p.chunk_index = 0)}

\* client.delete with the filter document_id = d.
DeletePoints(points, d) == {p \in points : p.document_id # d}

\* Filter(must = [FieldCondition(key, MatchValue(value)) ...])
Matches(p, filters) == \A k \in DOMAIN filters : p[k] = filters[k]

\* The order of client.search: by score, highest first (equal scores by id).
Before(p, q) == p.sim > q.sim \/ (p.sim = q.sim /\ p.id <= q.id)

RECURSIVE ByScore(_)
ByScore(points) ==
    IF points = {} THEN <<>>
    ELSE LET best == CHOOSE p \in points : \A q \in points : Before(p, q)
         IN  <<best>> \o ByScore(points \ {best})

FirstN(s, n) == SubSeq(s, 1, IF Len(s) < n THEN Len(s) ELSE n)

\* client.search without its score_threshold.
SearchIgnoringThreshold(points, limit, score_threshold, filters) ==
    FirstN(ByScore({p \in points : Matches(p, filters)}), limit)

\* search_similar: client.search with limit, score_threshold and query_filter;
\* the result pairs each payload with its score.
SearchSimilar(points, limit, score_threshold, filters) ==
    FirstN(ByScore({p \in points : Matches(p, filters) /\ p.sim >= score_threshold}), limit)

(***************************************************************************)
(* index_document, one call at a time, interleaved at its awaits with      *)
(* searches and deletes of other callers.                                  *)
(***************************************************************************)
\* FixedSizeChunkingStrategy.chunk_text was not called.
NoFixed ==
    [pc |-> "idle", tokens |-> <<>>, chunk_size |-> 0, overlap |-> 0, i |-> 0, chunks |-> <<>>,
     run |-> 0, previous |-> <<>>]

FixedIdle == fx = NoFixed

\* search_similar was not called by query_knowledge_base.
NoSearchRequest == [limit |-> 0, score_threshold |-> 0, filters |-> NoFilter]

\* The messages handed to azure_ai.generate_response: which system prompt, whether
\* it has the "Context from knowledge base:" block, and the texts in that block.
NoMessages == [system_prompt |-> "none", context_block |-> FALSE, context |-> <<>>]

\* _generate_embeddings_batch was not called.
NoEmbedBatch ==
    [pc |-> "idle", texts |-> <<>>, batch_size |-> 0, i |-> 0, batch |-> <<>>, pending |-> {},
     completed |-> <<>>, embeddings |-> <<>>]

EmbedIdle == eb = NoEmbedBatch

\* No indexing job was started.
NoJob ==
    [pc |-> "idle", status |-> "none", progress |-> 0, total_files |-> 0, processed_files |-> 0,
     errors |-> <<>>, config |-> [files |-> <<>>, batch_size |-> 0], files |-> <<>>, i |-> 0,
     batch |-> <<>>, attempts |-> <<>>, embed_calls |-> <<>>, cancelled |-> FALSE,
     attempts_at_cancel |-> <<>>]

NoJobRecord == [status |-> "none", progress |-> 0, processed_files |-> 0, errors_count |-> 0]

JobIdle ==
    /\ job = NoJob
    /\ tasks = <<>>
    /\ indexed_documents = {}
    /\ indexed_files = {}
    /\ job_record = NoJobRecord

\* No file is being indexed by a job batch.
CallsIdle == calls = <<>>

\* No job was started.
RegistryIdle ==
    /\ current_jobs = <<>>
    /\ now = 0
    /\ started = <<>>

\* The auth store as create() leaves it.
NoAuth ==
    [user |-> "null", token |-> "null", refreshToken |-> "null",
     isAuthenticated |-> FALSE, isLoading |-> FALSE]

NoStorage == [auth_token |-> "null", refresh_token |-> "null"]

AuthIdle ==
    /\ auth = NoAuth
    /\ localStorage = NoStorage
    /\ requests = {}
    /\ lastCall = "none"

\* No extractor was called.
NoExtraction ==
    [processor |-> "none", op |-> "none", pc |-> "idle", handle |-> "none", scoped |-> FALSE,
     reads |-> 0, read |-> 0, used_after_close |-> FALSE]

ExtractorIdle == hx = NoExtraction

\* No query_knowledge_base call was made.
NoQuery ==
    [pc |-> "idle", query_words |-> 0, max_results |-> 0, score_threshold |-> 0,
     filters |-> NoFilter, search_request |-> NoSearchRequest,
     search_results |-> <<>>, ranked_results |-> <<>>,
     top_results |-> <<>>, context |-> <<>>,
     messages |-> NoMessages, failure |-> "none", response |-> "none", sources |-> <<>>]

KbIdle == kb = NoQuery

\* No answer is being streamed.
NoStream ==
    [path |-> "none", pc |-> "idle", resume |-> "idle", words |-> <<>>, i |-> 0,
     full_response |-> <<>>, sources |-> <<>>, message_id |-> 0, received |-> 0,
     failure |-> "none"]

StreamIdle ==
    /\ gen = NoStream
    /\ emitted = <<>>
    /\ delivered = <<>>
    /\ connected = FALSE
    /\ chat_messages = <<>>
    /\ message_count = 0

IndexFrame == UNCHANGED <<chunkVars, queryVars, streamVars, fixedVars, embedVars, jobVars, callVars, registryVars, authVars, extractVars>>

\* Steps 1: the processor is found and extract_text / extract_metadata return.
IndexExtract(d, e, t) ==
    /\ ix.pc \in {"idle", "indexed", "failed"}
    /\ clock < MaxIndexCalls
    /\ GetProcessor(e) # NoProcessor
    /\ clock' = clock + 1
    /\ ix' = [NoCall EXCEPT !.pc = "extracted", !.document_id = d, !.file_ext = e,
                            !.text = t, !.indexed_at = clock + 1]
    /\ UNCHANGED <<store, nextPointId, lastSearch, deleted, upserts>>
    /\ IndexFrame

\* No processor for the extension: ValueError("Unsupported file format").
IndexUnsupported(d, e) ==
    /\ ix.pc \in {"idle", "indexed", "failed"}
    /\ clock < MaxIndexCalls
    /\ GetProcessor(e) = NoProcessor
    /\ clock' = clock + 1
    /\ ix' = [NoCall EXCEPT !.pc = "failed", !.document_id = d, !.file_ext = e,
                            !.failure = "unsupported"]
    /\ UNCHANGED <<store, nextPointId, lastSearch, deleted, upserts>>
    /\ IndexFrame

\* The processor is found and extract_text or extract_metadata raises.
IndexExtractFails(d, e) ==
    /\ ix.pc \in {"idle", "indexed", "failed"}
    /\ clock < MaxIndexCalls
    /\ GetProcessor(e) # NoProcessor
    /\ clock' = clock + 1
    /\ ix' = [NoCall EXCEPT !.pc = "failed", !.document_id = d, !.file_ext = e,
                            !.failure = "extraction"]
    /\ UNCHANGED <<store, nextPointId, lastSearch, deleted, upserts>>
    /\ IndexFrame

\* Steps 2 and 3: chunk_text, then one embedding per chunk.
IndexEmbed ==
    /\ ix.pc = "extracted"
    /\ LET chs == ChunkText(ix.text,
                            [document_id |-> ix.document_id, indexed_at |-> ix.indexed_at],
                            DefaultMaxChunkSize)
       IN  ix' = [ix EXCEPT !.pc = "embedded", !.chunks = chs,
                               !.embeddings = [i \in 1..Len(chs) |-> GenerateEmbedding(chs[i].text)]]
    /\ UNCHANGED <<store, nextPointId, clock, lastSearch, deleted, upserts>>
    /\ IndexFrame

\* The embedding capability raises.
IndexEmbedFails ==
    /\ ix.pc = "extracted"
    /\ ix' = [ix EXCEPT !.pc = "failed", !.failure = "embedding"]
    /\ UNCHANGED <<store, nextPointId, clock, lastSearch, deleted, upserts>>
    /\ IndexFrame

\* Step 4: add_documents, one upsert of all the points, and the return.
IndexStore ==
    /\ ix.pc = "embedded"
    /\ LET new == NewPoints(ix.chunks, ix.embeddings, nextPointId)
       IN  /\ store' = Upsert(store, new)
           /\ nextPointId' = nextPointId + Cardinality(new)
           /\ ix' = [ix EXCEPT !.pc = "indexed",
                               !.point_ids = [i \in 1..Cardinality(new) |-> nextPointId + i]]
           /\ upserts' = upserts \cup {[document_id |-> ix.document_id, ids |-> IdsOf(new)]}
    /\ deleted' = deleted \ {ix.document_id}
    /\ UNCHANGED <<clock, lastSearch>>
    /\ IndexFrame

\* The upsert raises: nothing is written.
IndexStoreFails ==
    /\ ix.pc = "embedded"
    /\ ix' = [ix EXCEPT !.pc = "failed", !.failure = "store"]
    /\ UNCHANGED <<store, nextPointId, clock, lastSearch, deleted, upserts>>
    /\ IndexFrame

\* search_similar called by some reader.
Search(filters, score_threshold, limit) ==
    /\ lastSearch' = [filters |-> filters, score_threshold |-> score_threshold, limit |-> limit,
                      hits |-> SearchSimilar(store, limit, score_threshold, filters),
                      after_delete |-> \E d \in deleted : filters = [document_id |-> d]]
    /\ UNCHANGED <<store, nextPointId, clock, ix, deleted, upserts>>
    /\ IndexFrame

\* delete_document
DeleteDocument(d) ==
    /\ store' = DeletePoints(store, d)
    /\ deleted' = deleted \cup {d}
    /\ UNCHANGED <<nextPointId, clock, ix, lastSearch, upserts>>
    /\ IndexFrame

SearchSome ==
    \E f \in Filters, th \in {0, DefaultScoreThreshold}, n \in {1, DefaultLimit} : Search(f, th, n)

InitIndex == IndexIdle /\ ChunkIdle /\ KbIdle /\ StreamIdle /\ FixedIdle /\ EmbedIdle /\ JobIdle /\ CallsIdle /\ RegistryIdle /\ AuthIdle /\ ExtractorIdle

NextIndex ==
    \/ \E d \in DocumentIds, e \in FileExtensions, t \in IndexTexts : IndexExtract(d, e, t)
    \/ \E d \in DocumentIds, e \in FileExtensions : IndexUnsupported(d, e)
    \/ \E d \in DocumentIds, e \in FileExtensions : IndexExtractFails(d, e)
    \/ IndexEmbed
    \/ IndexEmbedFails
    \/ IndexStore
    \/ IndexStoreFails
    \/ SearchSome
    \/ \E d \in DocumentIds : DeleteDocument(d)

SpecIndex == InitIndex /\ [][NextIndex]_vars

(***************************************************************************)
(* query_knowledge_base over a store that some index_document calls left.  *)
(* A stored point here also carries overlap, the number of the query's     *)
(* words found in its text.                                                *)
(***************************************************************************)
MaxStored == 3
MaxResults == 2
QueryWords == 2

QuerySimilarities == {40, 75, 92}

QueryThresholds == {0, DefaultScoreThreshold, 100}

\* The stores of n points: the chunks 0.. of d1, then (from the third point on) of d2.
QueryStores ==
    UNION {{{[id |-> i, sim |-> f[i][1], overlap |-> f[i][2],
              document_id |-> IF i <= 2 THEN "d1" ELSE "d2",
              chunk_index |-> IF i <= 2 THEN i - 1 ELSE i - 3] : i \in 1..n} :
                f \in [1..n -> QuerySimilarities \X {0, QueryWords}]} : n \in 0..MaxStored}

\* combined_score = similarity_score * 0.7 + keyword_score * 0.3, in thousandths,
\* with keyword_score = overlap / len(query_words) if query_words else 0.
CombinedScore(p, query_words) ==
    7 * p.sim + (IF query_words = 0 THEN 0 ELSE (300 * p.overlap) \div query_words)

\* The sort putting a candidate before the earlier ones of equal score.
RECURSIVE SortedTiesReversed(_)
SortedTiesReversed(scored) ==
    IF scored = <<>> THEN <<>>
    ELSE LET rest == SortedTiesReversed(SubSeq(scored, 1, Len(scored) - 1))
             x == scored[Len(scored)]
             k == Cardinality({i \in DOMAIN rest : rest[i].score > x.score})
         IN  SubSeq(rest, 1, k) \o <<x>> \o SubSeq(rest, k + 1, Len(rest))

\* sorted(scored_results, key = score, reverse = True): stable, highest first.
RECURSIVE SortedByScore(_)
SortedByScore(scored) ==
    IF scored = <<>> THEN <<>>
    ELSE LET rest == SortedByScore(SubSeq(scored, 1, Len(scored) - 1))
             x == scored[Len(scored)]
             k == Cardinality({i \in DOMAIN rest : rest[i].score >= x.score})
         IN  SubSeq(rest, 1, k) \o <<x>> \o SubSeq(rest, k + 1, Len(rest))

\* _rerank_results
RerankResults(query_words, search_results) ==
    SortedByScore([i \in DOMAIN search_results |->
                      [result |-> search_results[i],
                       score |-> CombinedScore(search_results[i], query_words)]])

\* _prepare_context keeping the first result only.
PrepareContextFirstOnly(results) == [i \in DOMAIN FirstN(results, 1) |-> results[i].result.id]

\* _prepare_context: the texts written into the context block, in order.
PrepareContext(results) == [i \in DOMAIN results |-> results[i].result.id]

\* _prepare_sources: one source per result; preview stands for the text it shows.
PrepareSources(results) ==
    [i \in DOMAIN results |->
        [file_path |-> results[i].result.document_id,
         chunk_index |-> results[i].result.chunk_index,
         score |-> results[i].score,
         preview |-> results[i].result.id]]

QueryFrame == UNCHANGED <<chunkVars, indexVars, streamVars, fixedVars, embedVars, jobVars, callVars, registryVars, authVars, extractVars>>

\* Half of what query_knowledge_base should ask for.
SearchLimitSingle(max_results) == max_results

\* limit = max_results * 2  (get more for re-ranking)
SearchLimit(max_results) == max_results * 2

\* _generate_rag_response: the system prompt always carries the context block.
RagMessages(context) ==
    [system_prompt |-> "knowledge_base", context_block |-> TRUE, context |-> context]

\* The messages of the fallback.
FallbackMessages == [system_prompt |-> "general", context_block |-> FALSE, context |-> <<>>]

\* The step of query_knowledge_base that is under way at a position.
StepAt(pc) ==
    IF pc = "called" THEN "embedding" ELSE IF pc = "embedded" THEN "search" ELSE "generation"

\* Step 1: azure_ai.generate_embedding(query) returns.
KbEmbedQuery ==
    /\ kb.pc = "called"
    /\ kb' = [kb EXCEPT !.pc = "embedded"]
    /\ QueryFrame

\* Step 2: search_similar with limit = max_results * 2.
KbSearch ==
    /\ kb.pc = "embedded"
    /\ LET request == [limit |-> SearchLimit(kb.max_results),
                        score_threshold |-> kb.score_threshold, filters |-> kb.filters]
       IN  kb' = [kb EXCEPT !.pc = "searched", !.search_request = request,
                            !.search_results =
                                SearchSimilar(store, request.limit, request.score_threshold,
                                              request.filters)]
    /\ QueryFrame

\* Steps 3 to 6: rerank, cut to max_results, build the context, generate the
\* response, prepare the sources and return.
KbGenerate ==
    /\ kb.pc = "searched"
    /\ LET ranked == RerankResults(kb.query_words, kb.search_results)
           top == FirstN(ranked, kb.max_results)
       IN  kb' = [kb EXCEPT !.pc = "returned", !.ranked_results = ranked, !.top_results = top,
                            !.context = PrepareContext(top),
                            !.messages = RagMessages(PrepareContext(top)), !.response = "rag",
                            !.sources = PrepareSources(top)]
    /\ QueryFrame

\* Any step raises: except Exception, the fallback to a general response.
KbFails ==
    /\ kb.pc \in {"called", "embedded", "searched"}
    /\ kb' = [kb EXCEPT !.pc = "fallback", !.failure = StepAt(kb.pc)]
    /\ QueryFrame

\* The fallback generate_response returns: (fallback_response, []).
KbFallback ==
    /\ kb.pc = "fallback"
    /\ kb' = [kb EXCEPT !.pc = "returned", !.messages = FallbackMessages,
                        !.response = "general", !.sources = <<>>]
    /\ QueryFrame

\* The fallback generate_response raises, out of query_knowledge_base.
KbFallbackFails ==
    /\ kb.pc = "fallback"
    /\ kb' = [kb EXCEPT !.pc = "raised"]
    /\ QueryFrame

InitQuery ==
    /\ ChunkIdle
    /\ StreamIdle
    /\ FixedIdle
    /\ EmbedIdle
    /\ JobIdle
    /\ CallsIdle
    /\ RegistryIdle
    /\ AuthIdle
    /\ ExtractorIdle
    /\ store \in QueryStores
    /\ nextPointId = Cardinality(store)
    /\ clock = 0
    /\ ix = NoCall
    /\ lastSearch = NoSearch
    /\ deleted = {}
    /\ upserts = {}
    /\ \E m \in 1..MaxResults, th \in QueryThresholds, f \in {NoFilter, [document_id |-> "d1"]} :
           kb = [NoQuery EXCEPT !.pc = "called", !.query_words = QueryWords,
                                !.max_results = m, !.score_threshold = th, !.filters = f]

NextQuery ==
    \/ KbEmbedQuery
    \/ KbSearch
    \/ KbGenerate
    \/ KbFails
    \/ KbFallback
    \/ KbFallbackFails

SpecQuery == InitQuery /\ [][NextQuery]_vars

\* C7: neither search_similar nor query_knowledge_base returns a result whose
\* similarity is below score_threshold; and with exactly one chunk at 0.92 and
\* one at 0.40 in the index and score_threshold 0.7, search_similar returns one
\* result and a grounded answer carries one source.
C7_ThresholdRespected ==
    /\ \A i \in DOMAIN kb.search_results : kb.search_results[i].sim >= kb.score_threshold
    /\ \A i \in DOMAIN kb.sources :
            \E p \in store : p.id = kb.sources[i].preview /\ p.sim >= kb.score_threshold
    /\ ({p.sim : p \in store} = {40, 92} /\ Cardinality(store) = 2
            /\ kb.score_threshold = DefaultScoreThreshold /\ kb.filters = NoFilter) =>
            /\ kb.pc = "searched" => Len(kb.search_results) = 1
            /\ (kb.pc = "returned" /\ kb.response = "rag") => Len(kb.sources) = 1

\* The index holds one chunk at 0.92 and one at 0.40, the threshold is 0.7 and
\* the grounded answer was returned.
C7_Witness ==
    /\ {p.sim : p \in store} = {40, 92}
    /\ Cardinality(store) = 2
    /\ kb.score_threshold = DefaultScoreThreshold
    /\ kb.pc = "returned"
    /\ kb.response = "rag"
    /\ Len(kb.sources) = 1

(***************************************************************************)
(* Properties of the vector index.                                         *)
(***************************************************************************)
HitIds == {lastSearch.hits[i].id : i \in DOMAIN lastSearch.hits}

\* C4: re-indexing a document that already has chunks replaces its chunk set:
\* once index_document has returned, the points stored under its document_id
\* are exactly the points it wrote, and no search returns chunks of one
\* document written by two different index_document calls.
C4_ReindexReplaces ==
    /\ (ix.pc = "indexed" /\ ix.document_id \notin deleted) =>
            IdsOf(PointsOf(store, ix.document_id)) = Range(ix.point_ids)
    /\ \A i, j \in DOMAIN lastSearch.hits :
            lastSearch.hits[i].document_id = lastSearch.hits[j].document_id =>
                lastSearch.hits[i].indexed_at = lastSearch.hits[j].indexed_at

\* C5: delete_document removes every chunk of the document in one step: a
\* deleted document has no point left, a search filtered on it issued after the
\* delete returns nothing, and a search that is cut neither by the threshold
\* nor by the limit returns, of the points of any one add_documents call, all
\* or none.
C5_DeleteAtomic ==
    /\ \A d \in deleted : PointsOf(store, d) = {}
    /\ lastSearch.after_delete => lastSearch.hits = <<>>
    /\ (lastSearch.score_threshold = 0 /\ Len(lastSearch.hits) < lastSearch.limit) =>
            \A u \in upserts :
                Matches([document_id |-> u.document_id], lastSearch.filters) =>
                    (u.ids \cap HitIds = {} \/ u.ids \subseteq HitIds)

\* A search filtered on a document whose two chunks were written and then deleted.
C5_Witness ==
    /\ lastSearch.after_delete
    /\ \E u \in upserts :
            /\ lastSearch.filters = [document_id |-> u.document_id]
            /\ Cardinality(u.ids) = 2
    /\ store # {}

\* C6: a chunk (document_id, chunk_index) written twice through add_documents
\* is stored as exactly one point.
C6_OnePointPerChunk ==
    \A p, q \in store :
        (p.document_id = q.document_id /\ p.chunk_index = q.chunk_index) => p = q

\* C8: the chunk_index values stored under a document_id are exactly
\* {0..n-1}, n the number of its points: no gap and no duplicate.
C8_Ordinals ==
    \A d \in DocumentIds :
        {p.chunk_index : p \in PointsOf(store, d)} = 0..(Cardinality(PointsOf(store, d)) - 1)

(***************************************************************************)
(* SpecChunk: chunk_text applied to every bounded text.                    *)
(***************************************************************************)
ChunkFrame == UNCHANGED <<indexVars, queryVars, streamVars, fixedVars, embedVars, jobVars, callVars, registryVars, authVars, extractVars>>

InitChunk ==
    /\ text \in Texts
    /\ max_chunk_size \in 1..MaxChunkSize
    /\ chunks = <<>>
    /\ chunkPc = "ready"
    /\ IndexIdle
    /\ KbIdle
    /\ StreamIdle
    /\ FixedIdle
    /\ EmbedIdle
    /\ JobIdle
    /\ CallsIdle
    /\ RegistryIdle
    /\ AuthIdle
    /\ ExtractorIdle

RunChunkText ==
    /\ chunkPc = "ready"
    /\ chunks' = ChunkText(text, NoMetadata, max_chunk_size)
    /\ chunkPc' = "chunked"
    /\ UNCHANGED <<text, max_chunk_size>>
    /\ ChunkFrame

NextChunk == RunChunkText

SpecChunk == InitChunk /\ [][NextChunk]_vars

(***************************************************************************)
(* Properties of the chunker.                                              *)
(***************************************************************************)
\* The chunk is one sentence that alone exceeds the budget.
SingleOversizedSentence(c, maxSize) ==
    /\ Len(c.text) = 1
    /\ c.text[1].sent # 0
    /\ c.text[1].tokens > maxSize

\* The chunk's metadata carries chunk_oversized = true.
FlaggedOversized(c) ==
    /\ "chunk_oversized" \in DOMAIN c.metadata
    /\ c.metadata["chunk_oversized"] = TRUE

\* C9: every chunk the semantic strategy produced has token_count (the encoded
\* length of its text, separators included) at most max_chunk_size, except a
\* chunk that is one single oversized sentence, which is kept whole and is
\* flagged chunk_oversized = true.
C9_BudgetOrFlagged ==
    chunkPc = "chunked" =>
        \A i \in DOMAIN chunks :
            \/ chunks[i].metadata.token_count <= max_chunk_size
            \/ /\ SingleOversizedSentence(chunks[i], max_chunk_size)
               /\ chunks[i].text[1].tokens = text.paras[chunks[i].text[1].para][chunks[i].text[1].sent]
               /\ FlaggedOversized(chunks[i])

(***************************************************************************)
(* SpecScenario: the 3-paragraph document of 900 tokens, chunked with the  *)
(* strategy's defaults (max_chunk_size 512; the semantic strategy stores   *)
(* overlap and never reads it).  The paragraph sizes run over a grid of    *)
(* ScenarioStep tokens; a paragraph above the budget is made of sentences  *)
(* of ScenarioSentence tokens and a shorter last one.                      *)
(***************************************************************************)
ScenarioTokens == 900
ScenarioStep == 4
ScenarioSentence == 200

RECURSIVE SentencesOf(_)
SentencesOf(n) ==
    IF n <= ScenarioSentence THEN <<n>> ELSE <<ScenarioSentence>> \o SentencesOf(n - ScenarioSentence)

ScenarioParagraph(n) == IF n <= DefaultMaxChunkSize THEN <<n>> ELSE SentencesOf(n)

ScenarioSizes == {n \in 1..ScenarioTokens : n % ScenarioStep = 0}

\* The three paragraphs and the two "\n\n" between them encode to ScenarioTokens.
ScenarioTexts ==
    {[paras |-> <<ScenarioParagraph(x[2]), ScenarioParagraph(x[3]),
                  ScenarioParagraph(ScenarioTokens - 2 * x[1] - x[2] - x[3])>>,
      paraSep |-> x[1], sentSep |-> 0] :
        x \in {y \in SepTokenChoices \X ScenarioSizes \X ScenarioSizes :
                  2 * y[1] + y[2] + y[3] < ScenarioTokens}}

InitScenario ==
    /\ text \in ScenarioTexts
    /\ max_chunk_size = DefaultMaxChunkSize
    /\ chunks = <<>>
    /\ chunkPc = "ready"
    /\ IndexIdle
    /\ KbIdle
    /\ StreamIdle
    /\ FixedIdle
    /\ EmbedIdle
    /\ JobIdle
    /\ CallsIdle
    /\ RegistryIdle
    /\ AuthIdle
    /\ ExtractorIdle

SpecScenario == InitScenario /\ [][NextChunk]_vars

\* The token counts of the three paragraphs of the scenario's document.
ScenarioP(i) == ParagraphTokens(text, i)

\* The sentences a chunk holds, in order: a whole paragraph stands for all of its
\* sentences.
RECURSIVE SentenceKeys(_, _)
SentenceKeys(pieces, t) ==
    IF pieces = <<>> THEN <<>>
    ELSE (IF Head(pieces).sent = 0
          THEN [s \in 1..Len(t.paras[Head(pieces).para]) |-> <<Head(pieces).para, s>>]
          ELSE <<<<Head(pieces).para, Head(pieces).sent>>>>)
         \o SentenceKeys(Tail(pieces), t)

\* The sentences of paragraphs p.. of the text, in source order.
RECURSIVE SourceKeys(_, _)
SourceKeys(t, p) ==
    IF p > Len(t.paras) THEN <<>>
    ELSE [s \in 1..Len(t.paras[p]) |-> <<p, s>>] \o SourceKeys(t, p + 1)

\* The tokens of a chunk's pieces as chunk_text counts them: separators left out.
RECURSIVE PieceTokens(_)
PieceTokens(pieces) ==
    IF pieces = <<>> THEN 0 ELSE Head(pieces).tokens + PieceTokens(Tail(pieces))

AllParagraphsFit == \A i \in 1..3 : ScenarioP(i) <= max_chunk_size

TwoNeighboursFit ==
    \/ ScenarioP(1) + ScenarioP(2) <= max_chunk_size
    \/ ScenarioP(2) + ScenarioP(3) <= max_chunk_size

MaxWords == 3

Blank == 0

SourcesEvent(sources) ==
    [type |-> "sources", sources |-> sources, content |-> <<>>, message_id |-> 0]

ChunkEvent(content) ==
    [type |-> "chunk", sources |-> <<>>, content |-> content, message_id |-> 0]

\* A complete event that names no message.
CompleteEventWithoutId(message_id) ==
    [type |-> "complete", sources |-> <<>>, content |-> <<>>, message_id |-> 0]

CompleteEvent(message_id) ==
    [type |-> "complete", sources |-> <<>>, content |-> <<>>, message_id |-> message_id]

RECURSIVE StripLeft(_)
StripLeft(s) == IF s # <<>> /\ Head(s) = Blank THEN StripLeft(Tail(s)) ELSE s

RECURSIVE StripRight(_)
StripRight(s) ==
    IF s # <<>> /\ s[Len(s)] = Blank THEN StripRight(SubSeq(s, 1, Len(s) - 1)) ELSE s

\* str.strip()
Strip(s) == StripRight(StripLeft(s))

\* result.inserted_id: an id no stored message has.
InsertedId(messages) == Len(messages) + 1

\* insert_one of the ChatMessage built from the response and its sources.
SaveMessage(messages, response, sources) ==
    Append(messages, [id |-> InsertedId(messages), response |-> response, sources |-> sources])

\* A source as _prepare_sources builds it.
StreamSources ==
    {<<>>,
     <<[file_path |-> "d1", chunk_index |-> 0,
        score |-> CombinedScore([sim |-> 92, overlap |-> QueryWords], QueryWords),
        preview |-> 1]>>}

\* The content of a delta of azure_ai.stream_response: none, a word, a word and a blank.
AiContents == {<<>>, <<1>>, <<1, Blank>>}

StreamFrame == UNCHANGED <<chunkVars, indexVars, queryVars, fixedVars, embedVars, jobVars, callVars, registryVars, authVars, extractVars>>

\* stream_rag_response: yield the sources event.
RagYieldSources ==
    /\ gen.path = "rag"
    /\ gen.pc = "start"
    /\ emitted' = Append(emitted, SourcesEvent(gen.sources))
    /\ gen' = [gen EXCEPT !.pc = "yielded", !.resume = "loop"]
    /\ UNCHANGED <<delivered, connected, chat_messages, message_count>>
    /\ StreamFrame

\* stream_rag_response: the next word of rag_response.split(), yielded as a chunk.
RagYieldChunk ==
    /\ gen.path = "rag"
    /\ gen.pc = "loop"
    /\ gen.i < Len(gen.words)
    /\ LET word == gen.words[gen.i + 1]
       IN  /\ emitted' = Append(emitted, ChunkEvent(<<word, Blank>>))
           /\ gen' = [gen EXCEPT !.pc = "yielded", !.resume = "loop", !.i = @ + 1,
                                 !.full_response = @ \o <<word, Blank>>]
    /\ UNCHANGED <<delivered, connected, chat_messages, message_count>>
    /\ StreamFrame

\* save_chat_message_with_sources: insert_one of full_response.strip().
RagSaveInsert ==
    /\ gen.path = "rag"
    /\ gen.pc = "loop"
    /\ gen.i = Len(gen.words)
    /\ chat_messages' = SaveMessage(chat_messages, Strip(gen.full_response), gen.sources)
    /\ gen' = [gen EXCEPT !.pc = "inserted", !.message_id = InsertedId(chat_messages)]
    /\ UNCHANGED <<emitted, delivered, connected, message_count>>
    /\ StreamFrame

\* save_chat_message_with_sources: insert_one raises.
RagSaveInsertFails ==
    /\ gen.path = "rag"
    /\ gen.pc = "loop"
    /\ gen.i = Len(gen.words)
    /\ gen' = [gen EXCEPT !.pc = "raised", !.failure = "insert_one"]
    /\ UNCHANGED <<emitted, delivered, connected, chat_messages, message_count>>
    /\ StreamFrame

\* save_chat_message_with_sources: update_one increments the session's message_count.
RagSaveCount ==
    /\ gen.pc = "inserted"
    /\ message_count' = message_count + 1
    /\ gen' = [gen EXCEPT !.pc = "saved"]
    /\ UNCHANGED <<emitted, delivered, connected, chat_messages>>
    /\ StreamFrame

\* save_chat_message_with_sources: update_one raises, after the insert.
RagSaveCountFails ==
    /\ gen.pc = "inserted"
    /\ gen' = [gen EXCEPT !.pc = "raised", !.failure = "update_one"]
    /\ UNCHANGED <<emitted, delivered, connected, chat_messages, message_count>>
    /\ StreamFrame

\* stream_rag_response: yield the complete event with str(message.id).
RagYieldComplete ==
    /\ gen.path = "rag"
    /\ gen.pc = "saved"
    /\ emitted' = Append(emitted, CompleteEvent(gen.message_id))
    /\ gen' = [gen EXCEPT !.pc = "yielded", !.resume = "end"]
    /\ UNCHANGED <<delivered, connected, chat_messages, message_count>>
    /\ StreamFrame

\* stream_ai_response: the next delta of azure_ai.stream_response; one with
\* content is added to full_response and yielded as a chunk.
AiReceive(content) ==
    /\ gen.path = "ai"
    /\ gen.pc = "loop"
    /\ gen.received < MaxWords
    /\ IF content # <<>>
       THEN /\ emitted' = Append(emitted, ChunkEvent(content))
            /\ gen' = [gen EXCEPT !.pc = "yielded", !.resume = "loop", !.received = @ + 1,
                                  !.full_response = @ \o content]
       ELSE /\ emitted' = emitted
            /\ gen' = [gen EXCEPT !.received = @ + 1]
    /\ UNCHANGED <<delivered, connected, chat_messages, message_count>>
    /\ StreamFrame

\* stream_ai_response: azure_ai.stream_response raises while it is iterated.
AiStreamFails ==
    /\ gen.path = "ai"
    /\ gen.pc = "loop"
    /\ gen' = [gen EXCEPT !.pc = "raised", !.failure = "generation"]
    /\ UNCHANGED <<emitted, delivered, connected, chat_messages, message_count>>
    /\ StreamFrame

\* stream_ai_response: the deltas are over; save_chat_message stores full_response.
AiSave ==
    /\ gen.path = "ai"
    /\ gen.pc = "loop"
    /\ chat_messages' = SaveMessage(chat_messages, gen.full_response, <<>>)
    /\ gen' = [gen EXCEPT !.pc = "saved"]
    /\ UNCHANGED <<emitted, delivered, connected, message_count>>
    /\ StreamFrame

\* stream_ai_response: save_chat_message raises.
AiSaveFails ==
    /\ gen.path = "ai"
    /\ gen.pc = "loop"
    /\ gen' = [gen EXCEPT !.pc = "raised", !.failure = "insert_one"]
    /\ UNCHANGED <<emitted, delivered, connected, chat_messages, message_count>>
    /\ StreamFrame

\* stream_ai_response: the complete event reads message.id, and the function
\* has no name message: NameError.
AiCompleteRaises ==
    /\ gen.path = "ai"
    /\ gen.pc = "saved"
    /\ gen' = [gen EXCEPT !.pc = "raised", !.failure = "NameError"]
    /\ UNCHANGED <<emitted, delivered, connected, chat_messages, message_count>>
    /\ StreamFrame

\* websocket_chat: send_text of the event just yielded, then the generator is
\* resumed; after the complete event it returns.
Send ==
    /\ gen.pc = "yielded"
    /\ connected
    /\ delivered' = Append(delivered, emitted[Len(emitted)])
    /\ gen' = [gen EXCEPT !.pc = IF gen.resume = "end" THEN "done" ELSE gen.resume]
    /\ UNCHANGED <<emitted, connected, chat_messages, message_count>>
    /\ StreamFrame

\* websocket_chat: send_text on a closed connection raises; the loop is left
\* and the generator is not resumed.
SendFails ==
    /\ gen.pc = "yielded"
    /\ ~connected
    /\ gen' = [gen EXCEPT !.pc = "abandoned"]
    /\ UNCHANGED <<emitted, delivered, connected, chat_messages, message_count>>
    /\ StreamFrame

\* The caller closes the connection while the answer is streamed.
Disconnect ==
    /\ connected
    /\ gen.pc \notin {"idle", "done", "raised", "abandoned"}
    /\ connected' = FALSE
    /\ UNCHANGED <<gen, emitted, delivered, chat_messages, message_count>>
    /\ StreamFrame

AiReceiveSome == \E content \in AiContents : AiReceive(content)

InitStream ==
    /\ ChunkIdle
    /\ IndexIdle
    /\ KbIdle
    /\ FixedIdle
    /\ EmbedIdle
    /\ JobIdle
    /\ CallsIdle
    /\ RegistryIdle
    /\ AuthIdle
    /\ ExtractorIdle
    /\ emitted = <<>>
    /\ delivered = <<>>
    /\ connected = TRUE
    /\ chat_messages \in {<<>>, SaveMessage(<<>>, <<1>>, <<>>)}
    /\ message_count = Len(chat_messages)
    /\ \/ \E n \in 0..MaxWords, sources \in StreamSources :
              gen = [NoStream EXCEPT !.path = "rag", !.pc = "start",
                                     !.words = [k \in 1..n |-> k], !.sources = sources]
       \/ gen = [NoStream EXCEPT !.path = "ai", !.pc = "loop"]

NextStream ==
    \/ RagYieldSources
    \/ RagYieldChunk
    \/ RagSaveInsert
    \/ RagSaveInsertFails
    \/ RagSaveCount
    \/ RagSaveCountFails
    \/ RagYieldComplete
    \/ AiReceiveSome
    \/ AiStreamFails
    \/ AiSave
    \/ AiSaveFails
    \/ AiCompleteRaises
    \/ Send
    \/ SendFails
    \/ Disconnect

SpecStream == InitStream /\ [][NextStream]_vars

RECURSIVE ChunkContents(_)
ChunkContents(events) ==
    IF events = <<>> THEN <<>>
    ELSE (IF Head(events).type = "chunk" THEN Head(events).content ELSE <<>>)
            \o ChunkContents(Tail(events))

CompleteDelivered == \E i \in DOMAIN delivered : delivered[i].type = "complete"

C2_DisconnectPersistsNothing ==
    [][(~connected /\ gen.pc # "idle" /\ ~CompleteDelivered) => chat_messages' = chat_messages]_vars

\* C3: when the generation fails after events were streamed, an error event is
\* emitted and no complete event is.
C3_FailureSurfacesError ==
    (gen.failure = "generation" /\ emitted # <<>>) =>
        /\ \E i \in DOMAIN emitted : emitted[i].type = "error"
        /\ \A i \in DOMAIN emitted : emitted[i].type # "complete"


(***************************************************************************)
(* FixedSizeChunkingStrategy.chunk_text.  The text is its token list       *)
(* tokenizer.encode(text), a token being given by its position; the text   *)
(* of a chunk is the tokens tokenizer.decode is handed.                    *)
(***************************************************************************)
MaxTokens == 5
MaxFixedChunkSize == 3

\* tokens[a:b]
Slice(tokens, a, b) == SubSeq(tokens, a + 1, IF b < Len(tokens) THEN b ELSE Len(tokens))

\* A strategy object that goes on numbering its chunks from one call to the next.
FixedChunkNumberedAcrossCalls(tokens, i, chunk_size, metadata, chunk_index) ==
    LET chunk_tokens == Slice(tokens, i, i + chunk_size)
    IN  [text |-> chunk_tokens,
         metadata |-> [chunk_index |-> chunk_index + Len(fx.previous),
                       token_count |-> Len(chunk_tokens),
                       start_token |-> i, end_token |-> i + Len(chunk_tokens)] @@ metadata]

\* The chunk appended by one pass of the loop.
FixedChunk(tokens, i, chunk_size, metadata, chunk_index) ==
    LET chunk_tokens == Slice(tokens, i, i + chunk_size)
    IN  [text |-> chunk_tokens,
         metadata |-> [chunk_index |-> chunk_index, token_count |-> Len(chunk_tokens),
                       start_token |-> i, end_token |-> i + Len(chunk_tokens)] @@ metadata]

FixedFrame == UNCHANGED <<chunkVars, indexVars, queryVars, streamVars, embedVars, jobVars, callVars, registryVars, authVars, extractVars>>

\* range(0, len(tokens), chunk_size - overlap) with a step of 0: ValueError.
FixedRangeFails ==
    /\ fx.pc = "called"
    /\ fx.chunk_size - fx.overlap = 0
    /\ fx' = [fx EXCEPT !.pc = "raised"]
    /\ FixedFrame

\* The range is entered: i = 0.
FixedEnterLoop ==
    /\ fx.pc = "called"
    /\ fx.chunk_size - fx.overlap # 0
    /\ fx' = [fx EXCEPT !.pc = "loop", !.i = 0]
    /\ FixedFrame

\* One pass of the loop: the window at i is appended, i moves by the step.
FixedWindow ==
    /\ fx.pc = "loop"
    /\ fx.chunk_size - fx.overlap > 0
    /\ fx.i < Len(fx.tokens)
    /\ fx' = [fx EXCEPT !.chunks = Append(@, FixedChunk(fx.tokens, fx.i, fx.chunk_size,
                                                        NoMetadata, Len(fx.chunks))),
                        !.i = @ + (fx.chunk_size - fx.overlap)]
    /\ FixedFrame

\* The range is exhausted (at once when its step is negative): return chunks.
FixedReturn ==
    /\ fx.pc = "loop"
    /\ \/ fx.chunk_size - fx.overlap > 0 /\ fx.i >= Len(fx.tokens)
       \/ fx.chunk_size - fx.overlap < 0
    /\ fx' = [fx EXCEPT !.pc = "returned"]
    /\ FixedFrame

\* chunk_text is called a second time on the same strategy object, with the same
\* text; the list the first call returned is kept for comparison.
FixedCalledAgain ==
    /\ fx.pc = "returned"
    /\ fx.run = 1
    /\ fx' = [fx EXCEPT !.pc = "called", !.run = 2, !.previous = fx.chunks,
                        !.chunks = <<>>, !.i = 0]
    /\ FixedFrame

InitFixed ==
    /\ ChunkIdle
    /\ IndexIdle
    /\ KbIdle
    /\ StreamIdle
    /\ EmbedIdle
    /\ JobIdle
    /\ CallsIdle
    /\ RegistryIdle
    /\ AuthIdle
    /\ ExtractorIdle
    /\ \E n \in 0..MaxTokens, chunk_size \in 1..MaxFixedChunkSize :
        \E overlap \in 0..(chunk_size + 1) :
            fx = [NoFixed EXCEPT !.pc = "called", !.run = 1, !.tokens = [k \in 1..n |-> k],
                                 !.chunk_size = chunk_size, !.overlap = overlap]

NextFixed ==
    \/ FixedRangeFails
    \/ FixedEnterLoop
    \/ FixedWindow
    \/ FixedReturn
    \/ FixedCalledAgain

SpecFixed == InitFixed /\ [][NextFixed]_vars

(***************************************************************************)
(* SpecChunkers: a call of either strategy's chunk_text.                   *)
(***************************************************************************)
InitChunkers == InitChunk \/ InitFixed

NextChunkers ==
    \/ RunChunkText
    \/ FixedRangeFails
    \/ FixedEnterLoop
    \/ FixedWindow
    \/ FixedReturn

SpecChunkers == InitChunkers /\ [][NextChunkers]_vars

\* The sentences held by chunks k.. of the semantic strategy, in chunk order.
RECURSIVE ChunkedKeys(_, _, _)
ChunkedKeys(chs, k, t) ==
    IF k > Len(chs) THEN <<>> ELSE SentenceKeys(chs[k].text, t) \o ChunkedKeys(chs, k + 1, t)

\* The token positions some window of the fixed strategy holds.
FixedCovered == UNION {{fx.chunks[k].text[j] : j \in DOMAIN fx.chunks[k].text} : k \in DOMAIN fx.chunks}

\* C11: the chunk sequence covers the source without gap and in source order.
\* Semantic strategy: the sentences of the chunks, read in chunk order, are the
\* sentences of the text's paragraphs in source order.  Fixed strategy with
\* 0 <= overlap < chunk_size: every token position is in some window, every
\* window is a run of consecutive tokens, and the windows start in increasing
\* order with no token skipped between one window and the next.
C11_CoversSource ==
    /\ chunkPc = "chunked" => ChunkedKeys(chunks, 1, text) = SourceKeys(text, 1)
    /\ (fx.pc = "returned" /\ fx.overlap < fx.chunk_size) =>
            /\ FixedCovered = 1..Len(fx.tokens)
            /\ \A k \in DOMAIN fx.chunks :
                  /\ fx.chunks[k].text =
                        [j \in 1..Len(fx.chunks[k].text) |-> fx.chunks[k].metadata.start_token + j]
                  /\ k > 1 => /\ fx.chunks[k].metadata.start_token > fx.chunks[k - 1].metadata.start_token
                              /\ fx.chunks[k].metadata.start_token <= fx.chunks[k - 1].metadata.end_token

\* A text was cut into windows that overlap, the last one shorter.
C11_Witness ==
    /\ fx.pc = "returned"
    /\ fx.overlap > 0
    /\ fx.overlap < fx.chunk_size
    /\ Len(fx.chunks) >= 3
    /\ Len(fx.tokens) = MaxTokens


(***************************************************************************)
(* SpecRerank: query_knowledge_base with a query of ten words over stores  *)
(* whose points tie: 0.7 * 0.70 = 0.7 * 0.40 + 0.3 * 7/10.                 *)
(***************************************************************************)
TieQuery == [words |-> 10, sims |-> {40, 70}, overlaps |-> {0, 7}]

RerankStores ==
    UNION {{{[id |-> i, sim |-> f[i][1], overlap |-> f[i][2],
              document_id |-> IF i <= 2 THEN "d1" ELSE "d2",
              chunk_index |-> IF i <= 2 THEN i - 1 ELSE i - 3] : i \in 1..n} :
                f \in [1..n -> TieQuery.sims \X TieQuery.overlaps]} : n \in 0..MaxStored}

InitRerank ==
    /\ ChunkIdle
    /\ StreamIdle
    /\ FixedIdle
    /\ EmbedIdle
    /\ JobIdle
    /\ CallsIdle
    /\ RegistryIdle
    /\ AuthIdle
    /\ ExtractorIdle
    /\ store \in RerankStores
    /\ nextPointId = Cardinality(store)
    /\ clock = 0
    /\ ix = NoCall
    /\ lastSearch = NoSearch
    /\ deleted = {}
    /\ upserts = {}
    /\ \E m \in 1..MaxResults :
           kb = [NoQuery EXCEPT !.pc = "called", !.query_words = TieQuery.words,
                                !.max_results = m, !.score_threshold = 0, !.filters = NoFilter]

SpecRerank == InitRerank /\ [][NextQuery]_vars

\* The place of a candidate in the list search_similar returned.
SearchRank(id) == CHOOSE i \in DOMAIN kb.search_results : kb.search_results[i].id = id

\* C12: the reranked list holds the candidates of the search, each with
\* combined_score = 0.7 * similarity + 0.3 * overlap / query words, highest
\* first; of two candidates with equal combined_score the one with the higher
\* similarity comes first, and two tied on both keep the order of the search.
C12_RerankOrder ==
    (kb.pc = "returned" /\ kb.response = "rag") =>
        /\ Len(kb.ranked_results) = Len(kb.search_results)
        /\ {kb.ranked_results[i].result : i \in DOMAIN kb.ranked_results} =
                {kb.search_results[i] : i \in DOMAIN kb.search_results}
        /\ \A i \in DOMAIN kb.ranked_results :
                kb.ranked_results[i].score =
                    CombinedScore(kb.ranked_results[i].result, kb.query_words)
        /\ \A i, j \in DOMAIN kb.ranked_results :
                i < j =>
                    LET a == kb.ranked_results[i]
                        b == kb.ranked_results[j]
                    IN  /\ a.score >= b.score
                        /\ a.score = b.score => a.result.sim >= b.result.sim
                        /\ (a.score = b.score /\ a.result.sim = b.result.sim) =>
                                SearchRank(a.result.id) < SearchRank(b.result.id)

\* Three candidates of one combined_score were reranked: two of one
\* similarity, one of another.
C12_Witness ==
    /\ kb.pc = "returned"
    /\ kb.response = "rag"
    /\ Len(kb.ranked_results) = 3
    /\ \A i \in 1..3 : kb.ranked_results[i].score = kb.ranked_results[1].score
    /\ kb.ranked_results[1].result.sim > kb.ranked_results[3].result.sim
    /\ \E i \in 1..2 : kb.ranked_results[i].result.sim = kb.ranked_results[i + 1].result.sim


\* The points search_similar may return for the query_knowledge_base call.
KbCandidates == {p \in store : Matches(p, kb.filters) /\ p.sim >= kb.score_threshold}

\* C13: query_knowledge_base asks search_similar for 2 * max_results candidates
\* with its score_threshold (and filters), and the sources it returns are the
\* first max_results of the reranked candidates, all of them when fewer were
\* found.
C13_TopOfReranked ==
    /\ kb.pc \in {"searched", "returned"} /\ kb.response # "general" =>
          /\ kb.search_request = [limit |-> 2 * kb.max_results,
                                  score_threshold |-> kb.score_threshold, filters |-> kb.filters]
          /\ Len(kb.search_results) =
                IF Cardinality(KbCandidates) < 2 * kb.max_results
                THEN Cardinality(KbCandidates) ELSE 2 * kb.max_results
    /\ (kb.pc = "returned" /\ kb.response = "rag") =>
          /\ Len(kb.sources) <= kb.max_results
          /\ Len(kb.sources) =
                IF Len(kb.ranked_results) < kb.max_results
                THEN Len(kb.ranked_results) ELSE kb.max_results
          /\ \A i \in DOMAIN kb.sources :
                /\ kb.sources[i].preview = kb.ranked_results[i].result.id
                /\ kb.sources[i].score = kb.ranked_results[i].score

\* More candidates than 2 * max_results were in the index, and more were
\* reranked than max_results.
C13_Witness ==
    /\ kb.pc = "returned"
    /\ kb.response = "rag"
    /\ Cardinality(KbCandidates) > 2 * kb.max_results
    /\ Len(kb.ranked_results) > kb.max_results
    /\ Len(kb.sources) = kb.max_results


\* What query_knowledge_base returns: the tuple (response, sources).
KbResult == [response |-> kb.response, sources |-> kb.sources]

\* C14: when the search found no candidate, query_knowledge_base does not
\* raise, its answer has sources = [] and no_sources = true, and the messages
\* sent to the generation have no context block.
C14_EmptyRetrieval ==
    (kb.pc \in {"returned", "raised"} /\ kb.search_request # NoSearchRequest
        /\ kb.search_results = <<>>) =>
            /\ kb.pc = "returned"
            /\ KbResult.sources = <<>>
            /\ "no_sources" \in DOMAIN KbResult
            /\ KbResult["no_sources"] = TRUE
            /\ ~kb.messages.context_block

\* C15: the sources of a grounded answer are the results whose text is in the
\* context block sent to the generation, in the same order, and the answer of
\* the general-knowledge fallback, generated without context, has no sources.
C15_SourcesAreContext ==
    kb.pc = "returned" =>
        /\ [i \in DOMAIN kb.sources |-> kb.sources[i].preview] = kb.messages.context
        /\ kb.response = "general" => (kb.sources = <<>> /\ ~kb.messages.context_block)
        /\ kb.response = "rag" => kb.messages.context_block

\* A grounded answer with two sources, the second found before the first by the search.
C15_Witness ==
    /\ kb.pc = "returned"
    /\ kb.response = "rag"
    /\ Len(kb.sources) = 2
    /\ kb.search_results[1].id = kb.sources[2].preview

\* C16: when the embedding of the query fails, query_knowledge_base raises and
\* returns no answer.
C16_EmbeddingFailurePropagates ==
    (kb.failure = "embedding" /\ kb.pc \in {"returned", "raised"}) => kb.pc = "raised"


(***************************************************************************)
(* SpecEmbed: _generate_embeddings_batch.  The requests of one batch are   *)
(* in flight together and return in any order; asyncio.gather hands their  *)
(* results back in the order of the requests.                              *)
(***************************************************************************)
MaxTexts == 4
MaxBatchSize == 3

EmbedTexts == UNION {[1..n -> {"a", "b"}] : n \in 0..MaxTexts}

\* The vector azure_ai.generate_embedding returns for a text.
EmbeddingOf(t) == <<"embedding", t>>

\* The positions of texts[i:i + batch_size].
BatchPositions(texts, i, batch_size) == Slice([k \in 1..Len(texts) |-> k], i, i + batch_size)

\* The results in the order the requests returned.
GatherInCompletionOrder(batch, completed) == [j \in DOMAIN batch |-> completed[j].embedding]

\* await asyncio.gather(*[...]): the result of each request, in the order of the requests.
Gather(batch, completed) ==
    [j \in DOMAIN batch |->
        (CHOOSE c \in Range(completed) : c.position = batch[j]).embedding]

EmbedFrame == UNCHANGED <<chunkVars, indexVars, queryVars, streamVars, fixedVars, jobVars, callVars, registryVars, authVars, extractVars>>

\* for i in range(0, len(texts), batch_size): the requests of the batch are started.
EmbedStartBatch ==
    /\ eb.pc = "loop"
    /\ eb.i < Len(eb.texts)
    /\ LET batch == BatchPositions(eb.texts, eb.i, eb.batch_size)
       IN  eb' = [eb EXCEPT !.pc = "gather", !.batch = batch, !.pending = Range(batch),
                            !.completed = <<>>]
    /\ EmbedFrame

\* One generate_embedding of the batch returns.
EmbedRequestReturns(k) ==
    /\ eb.pc = "gather"
    /\ k \in eb.pending
    /\ eb' = [eb EXCEPT !.pending = @ \ {k},
                        !.completed = Append(@, [position |-> k,
                                                 embedding |-> EmbeddingOf(eb.texts[k])])]
    /\ EmbedFrame

\* One generate_embedding of the batch raises: gather raises, and so does the call.
EmbedRequestFails(k) ==
    /\ eb.pc = "gather"
    /\ k \in eb.pending
    /\ eb' = [eb EXCEPT !.pc = "raised"]
    /\ EmbedFrame

\* All requests of the batch returned: embeddings.extend(batch_embeddings).
EmbedGather ==
    /\ eb.pc = "gather"
    /\ eb.pending = {}
    /\ eb' = [eb EXCEPT !.pc = "loop", !.i = @ + eb.batch_size,
                        !.embeddings = @ \o Gather(eb.batch, eb.completed)]
    /\ EmbedFrame

\* return embeddings
EmbedReturn ==
    /\ eb.pc = "loop"
    /\ eb.i >= Len(eb.texts)
    /\ eb' = [eb EXCEPT !.pc = "returned"]
    /\ EmbedFrame

EmbedSomeReturns == \E k \in eb.pending : EmbedRequestReturns(k)

EmbedSomeFails == \E k \in eb.pending : EmbedRequestFails(k)

InitEmbed ==
    /\ ChunkIdle
    /\ IndexIdle
    /\ KbIdle
    /\ StreamIdle
    /\ FixedIdle
    /\ JobIdle
    /\ CallsIdle
    /\ RegistryIdle
    /\ AuthIdle
    /\ ExtractorIdle
    /\ \E texts \in EmbedTexts, batch_size \in 1..MaxBatchSize :
            eb = [NoEmbedBatch EXCEPT !.pc = "loop", !.texts = texts, !.batch_size = batch_size]

NextEmbed ==
    \/ EmbedStartBatch
    \/ EmbedSomeReturns
    \/ EmbedSomeFails
    \/ EmbedGather
    \/ EmbedReturn

SpecEmbed == InitEmbed /\ [][NextEmbed]_vars

\* C17: _generate_embeddings_batch returns one vector per text, vector i being
\* the embedding of text i, whatever the batch size and the order in which the
\* requests return; while it runs, embeddings holds the vectors of the texts
\* of the batches done, none dropped and none twice.
C17_OrderAndLengthPreserved ==
    /\ eb.pc \in {"loop", "returned"} =>
            Len(eb.embeddings) = (IF eb.i < Len(eb.texts) THEN eb.i ELSE Len(eb.texts))
    /\ \A k \in DOMAIN eb.embeddings : eb.embeddings[k] = EmbeddingOf(eb.texts[k])
    /\ eb.pc = "returned" => Len(eb.embeddings) = Len(eb.texts)

\* Texts of more than one batch were embedded, two different texts in one batch.
C17_Witness ==
    /\ eb.pc = "returned"
    /\ Len(eb.texts) = MaxTexts
    /\ eb.batch_size \in 2..(MaxTexts - 1)
    /\ eb.texts[1] # eb.texts[2]
    /\ eb.texts[MaxTexts] # eb.texts[1]


(***************************************************************************)
(* SpecJob: one indexing job, from the task start_indexing_job creates to  *)
(* its end.  A file is its number in the list _discover_files returns; the *)
(* _index_single_file tasks of a batch run together.  errors holds, for a  *)
(* file, [file, cause], and [file |-> 0, cause |-> "job"] for the error    *)
(* that ended the job.                                                     *)
(***************************************************************************)
MaxFiles == 4
MaxJobBatchSize == 2

\* The steps at which index_document raises: its first (no processor for the
\* extension, or the extraction raises) and the embedding of the chunks.
IndexFailures == {"extraction", "embedding"}

\* job.status, job.progress, ... as _update_job_status is handed them.
JobSnapshot(j) ==
    [status |-> j.status, progress |-> j.progress, processed_files |-> j.processed_files,
     errors_count |-> Len(j.errors)]

\* except Exception as e: the job is failed.
JobFailed(j) ==
    [j EXCEPT !.pc = "finally", !.status = "failed",
              !.errors = Append(@, [file |-> 0, cause |-> "job"])]

\* The error entries of the batch's failed tasks, in the order of the batch.
RECURSIVE BatchErrors(_, _)
BatchErrors(batch, ts) ==
    IF batch = <<>> THEN <<>>
    ELSE (IF ts[Head(batch)].pc = "failed"
          THEN <<[file |-> Head(batch), cause |-> ts[Head(batch)].cause]>> ELSE <<>>)
         \o BatchErrors(Tail(batch), ts)

\* What the loop over results does to the job, were a failed task counted as processed too.
CountEveryResult(j, ts) ==
    [j EXCEPT !.errors = @ \o BatchErrors(j.batch, ts),
              !.processed_files = @ + Len(j.batch)]

\* for j, result in enumerate(results): an exception is recorded in errors, any
\* other result counts one processed file.
CountResults(j, ts) ==
    [j EXCEPT !.errors = @ \o BatchErrors(j.batch, ts),
              !.processed_files = @ + Cardinality({f \in Range(j.batch) : ts[f].pc = "done"})]

JobFrame == UNCHANGED <<chunkVars, indexVars, queryVars, streamVars, fixedVars, embedVars, callVars, registryVars, authVars, extractVars>>

\* job.status = "running"; await self._update_job_status(job)
JobStart ==
    /\ job.pc = "created"
    /\ job' = [job EXCEPT !.pc = "discover", !.status = "running"]
    /\ job_record' = JobSnapshot(job')
    /\ UNCHANGED <<tasks, indexed_documents, indexed_files>>
    /\ JobFrame

\* files_to_index = await self._discover_files(job.config); total_files; status update.
JobDiscover ==
    /\ job.pc = "discover"
    /\ job' = [job EXCEPT !.pc = "loop", !.files = job.config.files,
                          !.total_files = Len(job.config.files), !.i = 0,
                          !.attempts = [f \in Range(job.config.files) |-> 0],
                          !.embed_calls = [f \in Range(job.config.files) |-> 0]]
    /\ job_record' = JobSnapshot(job')
    /\ UNCHANGED <<tasks, indexed_documents, indexed_files>>
    /\ JobFrame

\* _process_files_batch: the next batch and its tasks.
JobBatchStart ==
    /\ job.pc = "loop"
    /\ job.i < Len(job.files)
    /\ LET batch == Slice(job.files, job.i, job.i + job.config.batch_size)
       IN  /\ job' = [job EXCEPT !.pc = "gather", !.batch = batch,
                                 !.attempts = [f \in DOMAIN @ |->
                                                  IF f \in Range(batch) THEN @[f] + 1 ELSE @[f]]]
           /\ tasks' = [f \in Range(batch) |-> [pc |-> "indexing", cause |-> "none"]]
    /\ UNCHANGED <<indexed_documents, indexed_files, job_record>>
    /\ JobFrame

\* _index_single_file: index_document returns; its embeddings were requested once.
TaskIndexed(f) ==
    /\ job.pc = "gather"
    /\ f \in DOMAIN tasks
    /\ tasks[f].pc = "indexing"
    /\ tasks' = [tasks EXCEPT ![f].pc = "indexed"]
    /\ indexed_documents' = indexed_documents \cup {f}
    /\ job' = [job EXCEPT !.embed_calls[f] = @ + 1]
    /\ UNCHANGED <<indexed_files, job_record>>
    /\ JobFrame

\* _index_single_file: index_document raises, and the task with it.  A failure
\* of the embedding is the failure of the one _generate_embeddings_batch call.
TaskIndexFails(f, cause) ==
    /\ job.pc = "gather"
    /\ f \in DOMAIN tasks
    /\ tasks[f].pc = "indexing"
    /\ tasks' = [tasks EXCEPT ![f] = [pc |-> "failed", cause |-> cause]]
    /\ job' = [job EXCEPT !.embed_calls[f] = IF cause = "embedding" THEN @ + 1 ELSE @]
    /\ UNCHANGED <<indexed_documents, indexed_files, job_record>>
    /\ JobFrame

\* _index_single_file: the file's record is written to db.indexed_files; return True.
TaskRecorded(f) ==
    /\ job.pc = "gather"
    /\ f \in DOMAIN tasks
    /\ tasks[f].pc = "indexed"
    /\ tasks' = [tasks EXCEPT ![f].pc = "done"]
    /\ indexed_files' = indexed_files \cup {f}
    /\ UNCHANGED <<job, indexed_documents, job_record>>
    /\ JobFrame

\* _index_single_file: the hash or the update_one raises after index_document returned.
TaskRecordFails(f) ==
    /\ job.pc = "gather"
    /\ f \in DOMAIN tasks
    /\ tasks[f].pc = "indexed"
    /\ tasks' = [tasks EXCEPT ![f] = [pc |-> "failed", cause |-> "record"]]
    /\ UNCHANGED <<job, indexed_documents, indexed_files, job_record>>
    /\ JobFrame

\* asyncio.gather(*tasks, return_exceptions=True) returns: the results are
\* counted and the progress is yielded to _execute_indexing_job.
JobGather ==
    /\ job.pc = "gather"
    /\ \A f \in DOMAIN tasks : tasks[f].pc \in {"done", "failed"}
    /\ LET counted == CountResults(job, tasks)
       IN  job' = [counted EXCEPT !.pc = "update",
                                  !.progress = (counted.processed_files * 100) \div counted.total_files]
    /\ tasks' = <<>>
    /\ UNCHANGED <<indexed_documents, indexed_files, job_record>>
    /\ JobFrame

\* job.progress = progress; await self._update_job_status(job); then the
\* generator sleeps and goes to the next batch.
JobUpdate ==
    /\ job.pc = "update"
    /\ job' = [job EXCEPT !.pc = "loop", !.i = @ + job.config.batch_size, !.batch = <<>>]
    /\ job_record' = JobSnapshot(job)
    /\ UNCHANGED <<tasks, indexed_documents, indexed_files>>
    /\ JobFrame

\* _update_job_status or _discover_files raises inside the try.
JobStepFails ==
    /\ job.pc \in {"created", "discover", "update"}
    /\ job' = JobFailed([job EXCEPT !.status = IF job.pc = "created" THEN "running" ELSE @])
    /\ UNCHANGED <<tasks, indexed_documents, indexed_files, job_record>>
    /\ JobFrame

\* The batches are over: job.status = "completed".
JobComplete ==
    /\ job.pc = "loop"
    /\ job.i >= Len(job.files)
    /\ job' = [job EXCEPT !.pc = "finally", !.status = "completed"]
    /\ UNCHANGED <<tasks, indexed_documents, indexed_files, job_record>>
    /\ JobFrame

\* finally: await self._update_job_status(job)
JobFinally ==
    /\ job.pc = "finally"
    /\ job' = [job EXCEPT !.pc = "ended"]
    /\ job_record' = JobSnapshot(job)
    /\ UNCHANGED <<tasks, indexed_documents, indexed_files>>
    /\ JobFrame

\* finally: _update_job_status raises; the task ends with the exception.
JobFinallyFails ==
    /\ job.pc = "finally"
    /\ job' = [job EXCEPT !.pc = "ended"]
    /\ UNCHANGED <<tasks, indexed_documents, indexed_files, job_record>>
    /\ JobFrame

\* cancel_job on a job that is in current_jobs with status running: the status
\* is set and written, and True is returned.  cancelled records that return, and
\* attempts_at_cancel the files attempted until then.
CancelJob ==
    /\ job.pc \notin {"idle", "ended"}
    /\ job.status = "running"
    /\ job' = [job EXCEPT !.status = "cancelled", !.cancelled = TRUE,
                          !.attempts_at_cancel = job.attempts]
    /\ job_record' = JobSnapshot(job')
    /\ UNCHANGED <<tasks, indexed_documents, indexed_files>>
    /\ JobFrame

\* cancel_job: the status is set and _update_job_status raises, out of cancel_job.
CancelJobFails ==
    /\ job.pc \notin {"idle", "ended"}
    /\ job.status = "running"
    /\ job' = [job EXCEPT !.status = "cancelled"]
    /\ UNCHANGED <<tasks, indexed_documents, indexed_files, job_record>>
    /\ JobFrame

TaskSomeIndexed == \E f \in DOMAIN tasks : TaskIndexed(f)

TaskSomeIndexFails == \E f \in DOMAIN tasks, cause \in IndexFailures : TaskIndexFails(f, cause)

TaskSomeRecorded == \E f \in DOMAIN tasks : TaskRecorded(f)

TaskSomeRecordFails == \E f \in DOMAIN tasks : TaskRecordFails(f)

InitJob ==
    /\ ChunkIdle
    /\ IndexIdle
    /\ KbIdle
    /\ StreamIdle
    /\ FixedIdle
    /\ EmbedIdle
    /\ CallsIdle
    /\ RegistryIdle
    /\ AuthIdle
    /\ ExtractorIdle
    /\ tasks = <<>>
    /\ indexed_documents = {}
    /\ indexed_files = {}
    /\ \E n \in 0..MaxFiles, batch_size \in 1..MaxJobBatchSize :
            job = [NoJob EXCEPT !.pc = "created", !.status = "pending",
                                !.config = [files |-> [k \in 1..n |-> k],
                                            batch_size |-> batch_size]]
    /\ job_record = JobSnapshot(job)

NextJob ==
    \/ JobStart
    \/ JobDiscover
    \/ JobBatchStart
    \/ TaskSomeIndexed
    \/ TaskSomeIndexFails
    \/ TaskSomeRecorded
    \/ TaskSomeRecordFails
    \/ JobGather
    \/ JobUpdate
    \/ JobStepFails
    \/ JobComplete
    \/ JobFinally
    \/ JobFinallyFails
    \/ CancelJob
    \/ CancelJobFails

\* The event loop runs every task and coroutine that can run.
SpecJob == InitJob /\ [][NextJob]_vars /\ WF_vars(NextJob)

\* The files with an entry in job.errors.
ErrorFiles == {job.errors[k].file : k \in DOMAIN job.errors} \ {0}

JobLevelError == \E k \in DOMAIN job.errors : job.errors[k].cause = "job"

\* What holds of a job at every moment, for C18.
C18_FailingFileNeverAbortsSafety ==
    /\ \A f \in DOMAIN job.attempts : job.attempts[f] <= 1
    /\ job.status = "failed" => JobLevelError
    /\ job.status \in {"pending", "running", "cancelled", "completed", "failed"}
    /\ job.pc = "ended" => job.status \in {"completed", "failed"}
    /\ job.status = "completed" =>
            /\ \A f \in Range(job.files) : job.attempts[f] = 1
            /\ job.processed_files + Len(job.errors) = job.total_files
            /\ Cardinality(ErrorFiles) = Len(job.errors)
            /\ job.processed_files = Cardinality(Range(job.files) \ ErrorFiles)

BatchOf(f) == ((f - 1) \div job.config.batch_size) + 1

FilesOfBatch(b) == {f \in Range(job.files) : BatchOf(f) = b}

\* A job of three batches has ended; the embedding failed for every file of
\* batch 2 and nothing else failed.
ScenarioD ==
    /\ job.pc = "ended"
    /\ ~JobLevelError
    /\ Len(job.files) > 0
    /\ BatchOf(Len(job.files)) = 3
    /\ ErrorFiles = FilesOfBatch(2)
    /\ \A k \in DOMAIN job.errors : job.errors[k].cause = "embedding"

\* C19: in a 3-batch job where the embedding fails for the files of batch 2,
\* the files of batches 1 and 3 are indexed, those of batch 2 are recorded as
\* failed and not indexed, and the job ends as completed_with_errors.
C19_CompletedWithErrors ==
    ScenarioD =>
        /\ FilesOfBatch(1) \cup FilesOfBatch(3) \subseteq indexed_documents \cap indexed_files
        /\ FilesOfBatch(2) \cap (indexed_documents \cup indexed_files) = {}
        /\ FilesOfBatch(2) \subseteq ErrorFiles
        /\ job.status = "completed_with_errors"

\* C20: a file is failed for its embedding only after the embedding was
\* retried, that is requested more than once; and the files of the other
\* batches are still attempted.
C20_EmbeddingRetried ==
    /\ \A k \in DOMAIN job.errors :
            job.errors[k].cause = "embedding" => job.embed_calls[job.errors[k].file] > 1
    /\ (job.status = "completed" /\ ~JobLevelError) =>
            \A f \in Range(job.files) : job.attempts[f] = 1


(***************************************************************************)
(* SpecBatchEmbed: the files of one batch of _process_files_batch, indexed *)
(* together by asyncio.gather; each index_document has reached its         *)
(* _generate_embeddings_batch, all with the same batch_size.               *)
(***************************************************************************)
MaxConcurrentFiles == 2
MaxFileChunks == 3

CallsFrame ==
    UNCHANGED <<chunkVars, indexVars, queryVars, streamVars, fixedVars, embedVars, jobVars,
                registryVars, authVars, extractVars>>

\* A file's call starts the requests of its next batch of texts.
CallStartBatch(f) ==
    /\ calls[f].pc = "loop"
    /\ calls[f].i < Len(calls[f].texts)
    /\ LET batch == BatchPositions(calls[f].texts, calls[f].i, calls[f].batch_size)
       IN  calls' = [calls EXCEPT ![f] = [@ EXCEPT !.pc = "gather", !.batch = batch,
                                                    !.pending = Range(batch),
                                                    !.completed = <<>>]]
    /\ CallsFrame

\* One generate_embedding of a file's batch returns.
CallRequestReturns(f, k) ==
    /\ calls[f].pc = "gather"
    /\ k \in calls[f].pending
    /\ calls' = [calls EXCEPT ![f] =
                    [@ EXCEPT !.pending = @ \ {k},
                              !.completed = Append(@, [position |-> k,
                                                       embedding |-> EmbeddingOf(calls[f].texts[k])])]]
    /\ CallsFrame

\* All requests of a file's batch returned.
CallGather(f) ==
    /\ calls[f].pc = "gather"
    /\ calls[f].pending = {}
    /\ calls' = [calls EXCEPT ![f] =
                    [@ EXCEPT !.pc = "loop", !.i = @ + calls[f].batch_size,
                              !.embeddings = @ \o Gather(calls[f].batch, calls[f].completed)]]
    /\ CallsFrame

\* A file's call returns its embeddings.
CallReturn(f) ==
    /\ calls[f].pc = "loop"
    /\ calls[f].i >= Len(calls[f].texts)
    /\ calls' = [calls EXCEPT ![f] = [@ EXCEPT !.pc = "returned"]]
    /\ CallsFrame

CallSomeStartBatch == \E f \in DOMAIN calls : CallStartBatch(f)

CallSomeRequestReturns == \E f \in DOMAIN calls : \E k \in calls[f].pending : CallRequestReturns(f, k)

CallSomeGather == \E f \in DOMAIN calls : CallGather(f)

CallSomeReturn == \E f \in DOMAIN calls : CallReturn(f)

InitBatchEmbed ==
    /\ ChunkIdle
    /\ IndexIdle
    /\ KbIdle
    /\ StreamIdle
    /\ FixedIdle
    /\ EmbedIdle
    /\ JobIdle
    /\ RegistryIdle
    /\ AuthIdle
    /\ ExtractorIdle
    /\ \E files \in 1..MaxConcurrentFiles, batch_size \in 1..MaxBatchSize :
        \E n \in [1..files -> 1..MaxFileChunks] :
            calls = [f \in 1..files |->
                        [NoEmbedBatch EXCEPT !.pc = "loop", !.texts = [k \in 1..n[f] |-> "a"],
                                             !.batch_size = batch_size]]

NextBatchEmbed ==
    \/ CallSomeStartBatch
    \/ CallSomeRequestReturns
    \/ CallSomeGather
    \/ CallSomeReturn

SpecBatchEmbed == InitBatchEmbed /\ [][NextBatchEmbed]_vars

\* The embedding requests in flight over all the files.
RECURSIVE InFlight(_)
InFlight(f) == IF f = 0 THEN 0 ELSE Cardinality(calls[f].pending) + InFlight(f - 1)

\* C21: at every moment the embedding requests in flight, over all the files
\* indexed together, are at most batch_size.
C21_InFlightBounded ==
    \A f \in DOMAIN calls : InFlight(Len(calls)) <= calls[f].batch_size


\* C22: once cancel_job has returned true for a running job, the job's status
\* is cancelled in every later state and no further file of the job is
\* attempted.
C22_CancelledStays ==
    job.cancelled =>
        /\ job.status = "cancelled"
        /\ job.attempts = job.attempts_at_cancel


\* The points the current index_document call has put into the index.
PointsOfCall == {p \in store : p.indexed_at = ix.indexed_at}

\* The suffix has no entry in the processors dictionary.
Unsupported(file_extension) == Lower(file_extension) \notin DOMAIN Processors

C26_AllOrNothing ==
    /\ ix.pc \in {"extracted", "embedded", "failed"} => PointsOfCall = {}
    /\ ix.pc = "indexed" =>
            \/ Cardinality(PointsOfCall) = Len(ix.chunks)
            \/ PointsOfCall = {} /\ ix.document_id \in deleted

\* A document of two chunks is in the index with both, next to the points of
\* an earlier call.
C26_Witness ==
    /\ ix.pc = "indexed"
    /\ Len(ix.chunks) = 2
    /\ Cardinality(PointsOfCall) = 2
    /\ Cardinality(store) > 2


HasNewToken(k) ==
    k > 1 => fx.chunks[k].metadata.end_token > fx.chunks[k - 1].metadata.end_token

\* C28: with 0 <= overlap < chunk_size, window k (counted from 0) starts at
\* token k * (chunk_size - overlap) and holds at least one token that the
\* window before it does not hold.
C28_WindowsAdvance ==
    (0 <= fx.overlap /\ fx.overlap < fx.chunk_size) =>
        \A k \in DOMAIN fx.chunks :
            /\ fx.chunks[k].metadata.start_token = (k - 1) * (fx.chunk_size - fx.overlap)
            /\ HasNewToken(k)


\* The request has stored its message: insert_one returned.
Persisted ==
    \/ gen.path = "rag" /\ gen.message_id # 0
    \/ gen.path = "ai" /\ (gen.pc = "saved" \/ gen.failure = "NameError")

\* The generator has returned, raised, or was left by its consumer.
StreamOver == gen.pc \in {"done", "raised", "abandoned"}

\* C27: on either streaming path a request stores at most one message; the
\* stored text is the trimmed concatenation of all the deltas emitted, so none
\* is emitted after it; and once the generator is over, a stored message has
\* its complete event, carrying the message's id.
C27_PersistOnceThenComplete ==
    /\ Len(chat_messages) <= message_count + 1
    /\ Persisted =>
            chat_messages[Len(chat_messages)].response = Strip(ChunkContents(emitted))
    /\ (Persisted /\ StreamOver) =>
            \E i \in DOMAIN emitted :
                /\ emitted[i].type = "complete"
                /\ emitted[i].message_id = chat_messages[Len(chat_messages)].id


(***************************************************************************)
(* SpecRegistry: the calls of start_indexing_job on one IndexingService.   *)
(* The clock moves in ticks, TicksPerSecond of them to the second; a user  *)
(* id is the pair of its first 8 characters and the rest.                  *)
(***************************************************************************)
MaxStarts == 3
MaxTicks == 3
TicksPerSecond == 2

UserIds == {<<"5f1d7a20", "a1">>, <<"5f1d7a20", "b2">>, <<"60aa31c4", "a1">>}

\* strftime('%Y%m%d_%H%M%S'): the time, cut to the second.
Strftime(t) == t \div TicksPerSecond

\* user_id[:8]
First8(user_id) == user_id[1]

\* job_id = f"idx_{datetime.utcnow().strftime('%Y%m%d_%H%M%S')}_{user_id[:8]}"
JobId(t, user_id) == <<Strftime(t), First8(user_id)>>

\* self.current_jobs[job_id] = job
Put(jobs, job_id, j) ==
    [k \in DOMAIN jobs \cup {job_id} |-> IF k = job_id THEN j ELSE jobs[k]]

RegistryFrame ==
    UNCHANGED <<chunkVars, indexVars, queryVars, streamVars, fixedVars, embedVars, jobVars, callVars,
                authVars, extractVars>>

\* start_indexing_job: the id, the IndexingJob, its entry in current_jobs.
StartIndexingJob(user_id) ==
    /\ Len(started) < MaxStarts
    /\ LET job_id == JobId(now, user_id)
       IN  /\ current_jobs' = Put(current_jobs, job_id,
                                  [job_id |-> job_id, user_id |-> user_id,
                                   call |-> Len(started) + 1, status |-> "pending"])
           /\ started' = Append(started, job_id)
    /\ UNCHANGED now
    /\ RegistryFrame

\* _execute_indexing_job of a job that current_jobs holds sets it running.
ExecuteStarts(job_id) ==
    /\ current_jobs[job_id].status = "pending"
    /\ current_jobs' = [current_jobs EXCEPT ![job_id].status = "running"]
    /\ UNCHANGED <<now, started>>
    /\ RegistryFrame

\* Time passes.
Tick ==
    /\ now < MaxTicks
    /\ now' = now + 1
    /\ UNCHANGED <<current_jobs, started>>
    /\ RegistryFrame

StartSome == \E user_id \in UserIds : StartIndexingJob(user_id)

ExecuteSome == \E job_id \in DOMAIN current_jobs : ExecuteStarts(job_id)

InitRegistry ==
    /\ ChunkIdle
    /\ IndexIdle
    /\ KbIdle
    /\ StreamIdle
    /\ FixedIdle
    /\ EmbedIdle
    /\ JobIdle
    /\ CallsIdle
    /\ RegistryIdle
    /\ AuthIdle
    /\ ExtractorIdle

NextRegistry ==
    \/ StartSome
    \/ ExecuteSome
    \/ Tick

SpecRegistry == InitRegistry /\ [][NextRegistry]_vars

\* C29: the calls of start_indexing_job return ids that differ from one
\* another, and current_jobs holds under each id the job that call made.
C29_JobIdsUnique ==
    \A a \in DOMAIN started :
        /\ \A b \in DOMAIN started : a # b => started[a] # started[b]
        /\ started[a] \in DOMAIN current_jobs
        /\ current_jobs[started[a]].call = a


(***************************************************************************)
(* SpecAuth: the frontend store useAuthStore.  A call of login, register   *)
(* or checkAuth runs to its await, and a later step settles it with the    *)
(* response of authService or with its rejection; calls of different       *)
(* functions may be outstanding together.                                  *)
(***************************************************************************)
Users == {"ada", "bob"}

\* The response of authService.login for a user.
LoginResponse(u) ==
    [user |-> u,
     token |-> IF u = "ada" THEN "jwt-ada" ELSE "jwt-bob",
     refreshToken |-> IF u = "ada" THEN "refresh-ada" ELSE "refresh-bob"]

AuthFrame ==
    UNCHANGED <<chunkVars, indexVars, queryVars, streamVars, fixedVars, embedVars, jobVars,
                callVars, registryVars, extractVars>>

\* The request of a store function that is outstanding, if any.
Outstanding(name) == {r \in requests : r.name = name}

\* login, up to await authService.login(credentials).
LoginStart ==
    /\ Outstanding("login") = {}
    /\ auth' = [auth EXCEPT !.isLoading = TRUE]
    /\ requests' = requests \cup {[name |-> "login", token |-> "null"]}
    /\ lastCall' = "login"
    /\ UNCHANGED localStorage
    /\ AuthFrame

\* login: the response arrives; both tokens are stored and the state is set.
LoginSucceeds(u) ==
    /\ Outstanding("login") # {}
    /\ LET response == LoginResponse(u)
       IN  /\ localStorage' = [auth_token |-> response.token,
                               refresh_token |-> response.refreshToken]
           /\ auth' = [user |-> response.user, token |-> response.token,
                       refreshToken |-> response.refreshToken,
                       isAuthenticated |-> TRUE, isLoading |-> FALSE]
    /\ requests' = requests \ Outstanding("login")
    /\ lastCall' = "login resolved"
    /\ AuthFrame

\* login: authService.login rejects; catch sets isLoading and rethrows.
LoginFails ==
    /\ Outstanding("login") # {}
    /\ auth' = [auth EXCEPT !.isLoading = FALSE]
    /\ requests' = requests \ Outstanding("login")
    /\ lastCall' = "login rejected"
    /\ UNCHANGED localStorage
    /\ AuthFrame

\* register, up to await authService.register(userData).
RegisterStart ==
    /\ Outstanding("register") = {}
    /\ auth' = [auth EXCEPT !.isLoading = TRUE]
    /\ requests' = requests \cup {[name |-> "register", token |-> "null"]}
    /\ lastCall' = "register"
    /\ UNCHANGED localStorage
    /\ AuthFrame

\* register: settled, with the response or with a rejection.
RegisterSettles(ok) ==
    /\ Outstanding("register") # {}
    /\ auth' = [auth EXCEPT !.isLoading = FALSE]
    /\ requests' = requests \ Outstanding("register")
    /\ lastCall' = IF ok THEN "register resolved" ELSE "register rejected"
    /\ UNCHANGED localStorage
    /\ AuthFrame

\* The set() of logout, after the two removeItem calls.
LoggedOut(state) ==
    [state EXCEPT !.user = "null", !.token = "null", !.refreshToken = "null",
                  !.isAuthenticated = FALSE]

\* logout
Logout ==
    /\ localStorage' = NoStorage
    /\ auth' = LoggedOut(auth)
    /\ lastCall' = "logout"
    /\ UNCHANGED requests
    /\ AuthFrame

\* updateUser
UpdateUser(u) ==
    /\ auth' = [auth EXCEPT !.user = u]
    /\ lastCall' = "updateUser"
    /\ UNCHANGED <<localStorage, requests>>
    /\ AuthFrame

\* checkAuth with no auth-token item: it returns at once.
CheckAuthNoToken ==
    /\ localStorage.auth_token = "null"
    /\ lastCall' = "checkAuth returned"
    /\ UNCHANGED <<auth, localStorage, requests>>
    /\ AuthFrame

\* checkAuth with a token, up to await authService.getProfile().
CheckAuthStart ==
    /\ localStorage.auth_token # "null"
    /\ Outstanding("checkAuth") = {}
    /\ auth' = [auth EXCEPT !.isLoading = TRUE]
    /\ requests' = requests \cup {[name |-> "checkAuth", token |-> localStorage.auth_token]}
    /\ lastCall' = "checkAuth"
    /\ UNCHANGED localStorage
    /\ AuthFrame

\* checkAuth: the profile arrives; the state is set with the token read at the start.
CheckAuthSucceeds(u) ==
    /\ \E r \in Outstanding("checkAuth") :
          auth' = [auth EXCEPT !.user = u, !.token = r.token,
                               !.isAuthenticated = TRUE, !.isLoading = FALSE]
    /\ requests' = requests \ Outstanding("checkAuth")
    /\ lastCall' = "checkAuth resolved"
    /\ UNCHANGED localStorage
    /\ AuthFrame

\* checkAuth: getProfile rejects; catch calls get().logout().
CheckAuthFails ==
    /\ Outstanding("checkAuth") # {}
    /\ localStorage' = NoStorage
    /\ auth' = LoggedOut(auth)
    /\ requests' = requests \ Outstanding("checkAuth")
    /\ lastCall' = "checkAuth rejected"
    /\ AuthFrame

\* setLoading
SetLoading(loading) ==
    /\ auth' = [auth EXCEPT !.isLoading = loading]
    /\ lastCall' = "setLoading"
    /\ UNCHANGED <<localStorage, requests>>
    /\ AuthFrame

LoginSomeSucceeds == \E u \in Users : LoginSucceeds(u)

RegisterSomeSettles == \E ok \in BOOLEAN : RegisterSettles(ok)

UpdateSomeUser == \E u \in Users : UpdateUser(u)

CheckAuthSomeSucceeds == \E u \in Users : CheckAuthSucceeds(u)

SetSomeLoading == \E loading \in BOOLEAN : SetLoading(loading)

\* The page is loaded: persist restores user and isAuthenticated from the
\* auth-storage item, and localStorage holds what an earlier login left.
InitAuth ==
    /\ ChunkIdle
    /\ IndexIdle
    /\ KbIdle
    /\ StreamIdle
    /\ FixedIdle
    /\ EmbedIdle
    /\ JobIdle
    /\ CallsIdle
    /\ RegistryIdle
    /\ ExtractorIdle
    /\ requests = {}
    /\ lastCall = "none"
    /\ \/ auth = NoAuth /\ localStorage = NoStorage
       \/ \E u \in Users :
            /\ auth = [NoAuth EXCEPT !.user = u, !.isAuthenticated = TRUE]
            /\ localStorage = [auth_token |-> LoginResponse(u).token,
                               refresh_token |-> LoginResponse(u).refreshToken]

NextAuth ==
    \/ LoginStart
    \/ LoginSomeSucceeds
    \/ LoginFails
    \/ RegisterStart
    \/ RegisterSomeSettles
    \/ Logout
    \/ UpdateSomeUser
    \/ CheckAuthNoToken
    \/ CheckAuthStart
    \/ CheckAuthSomeSucceeds
    \/ CheckAuthFails
    \/ SetSomeLoading

SpecAuth == InitAuth /\ [][NextAuth]_vars

\* C30: the step that settles the last outstanding login, register or
\* checkAuth request, with success or with failure, leaves isLoading false;
\* and the step of a failed login leaves user, token and isAuthenticated as
\* they were.
C30_LoadingCleared ==
    [][/\ (requests # {} /\ requests' = {}) => ~auth'.isLoading
       /\ lastCall' = "login rejected" =>
            /\ auth'.user = auth.user
            /\ auth'.token = auth.token
            /\ auth'.isAuthenticated = auth.isAuthenticated]_vars


(***************************************************************************)
(* SpecExtract: one extract_text or extract_metadata call of a document    *)
(* processor that opens the file itself, and the handle it opens: the      *)
(* fitz document, the file object of open(), the pandas ExcelFile.  reads  *)
(* is the number of operations on the open handle (pages of get_text,      *)
(* file.read and the parsing of what was read).                            *)
(***************************************************************************)
MaxReads == 4

\* The calls that open a handle in the processor's own code.
ExtractorCalls ==
    {[processor |-> "PDFProcessor", op |-> "extract_text"],
     [processor |-> "PDFProcessor", op |-> "extract_metadata"],
     [processor |-> "XLSXProcessor", op |-> "extract_metadata"],
     [processor |-> "HTMLProcessor", op |-> "extract_text"],
     [processor |-> "HTMLProcessor", op |-> "extract_metadata"],
     [processor |-> "EMLProcessor", op |-> "extract_text"]}

\* The handle is opened by a with statement.
OpensInWith(processor) == processor \in {"HTMLProcessor", "EMLProcessor"}

\* The code calls close() on the handle.
ClosesExplicitly(processor) == processor = "PDFProcessor"

ExtractFrame ==
    UNCHANGED <<chunkVars, indexVars, queryVars, streamVars, fixedVars, embedVars, jobVars,
                callVars, registryVars, authVars>>

\* fitz.open, open(...) or pd.ExcelFile returns the handle.
ExtractorOpen ==
    /\ hx.pc = "called"
    /\ hx' = [hx EXCEPT !.pc = "opened", !.handle = "open", !.scoped = OpensInWith(hx.processor)]
    /\ ExtractFrame

\* The open raises: there is no handle.
ExtractorOpenFails ==
    /\ hx.pc = "called"
    /\ hx' = [hx EXCEPT !.pc = "raised"]
    /\ ExtractFrame

\* One operation on the open handle returns.
ExtractorRead ==
    /\ hx.pc = "opened"
    /\ hx.read < hx.reads
    /\ hx' = [hx EXCEPT !.read = @ + 1]
    /\ ExtractFrame

\* One operation on the open handle raises.  A with block closes its file on
\* the way out; nothing else does.
ExtractorReadFails ==
    /\ hx.pc = "opened"
    /\ hx.read < hx.reads
    /\ hx' = [hx EXCEPT !.pc = "raised", !.handle = IF hx.scoped THEN "closed" ELSE @]
    /\ ExtractFrame

\* doc.close()
ExtractorClose ==
    /\ hx.pc = "opened"
    /\ hx.read = hx.reads
    /\ ClosesExplicitly(hx.processor)
    /\ hx' = [hx EXCEPT !.pc = "closed", !.handle = "closed"]
    /\ ExtractFrame

\* PDFProcessor.extract_text: return text, after the close.
ExtractorReturnsClosed ==
    /\ hx.pc = "closed"
    /\ hx.op = "extract_text"
    /\ hx' = [hx EXCEPT !.pc = "returned"]
    /\ ExtractFrame

\* PDFProcessor.extract_metadata: the dictionary it returns reads
\* doc.page_count after doc.close(); the read returns a value or raises.
ExtractorReadsClosed ==
    /\ hx.pc = "closed"
    /\ hx.op = "extract_metadata"
    /\ \E outcome \in {"returned", "raised"} :
          hx' = [hx EXCEPT !.pc = outcome, !.used_after_close = TRUE]
    /\ ExtractFrame

\* The return inside a with block: the file is closed on the way out.
ExtractorReturnsFromWith ==
    /\ hx.pc = "opened"
    /\ hx.read = hx.reads
    /\ hx.scoped
    /\ hx' = [hx EXCEPT !.pc = "returned", !.handle = "closed"]
    /\ ExtractFrame

\* XLSXProcessor.extract_metadata: return, the ExcelFile neither closed nor in a with.
ExtractorReturnsOpen ==
    /\ hx.pc = "opened"
    /\ hx.read = hx.reads
    /\ ~hx.scoped
    /\ ~ClosesExplicitly(hx.processor)
    /\ hx' = [hx EXCEPT !.pc = "returned"]
    /\ ExtractFrame

InitExtract ==
    /\ ChunkIdle
    /\ IndexIdle
    /\ KbIdle
    /\ StreamIdle
    /\ FixedIdle
    /\ EmbedIdle
    /\ JobIdle
    /\ CallsIdle
    /\ RegistryIdle
    /\ AuthIdle
    /\ \E c \in ExtractorCalls, n \in 1..MaxReads :
          hx = [NoExtraction EXCEPT !.processor = c.processor, !.op = c.op,
                                    !.pc = "called", !.reads = n]

NextExtract ==
    \/ ExtractorOpen
    \/ ExtractorOpenFails
    \/ ExtractorRead
    \/ ExtractorReadFails
    \/ ExtractorClose
    \/ ExtractorReturnsClosed
    \/ ExtractorReadsClosed
    \/ ExtractorReturnsFromWith
    \/ ExtractorReturnsOpen

SpecExtract == InitExtract /\ [][NextExtract]_vars

\* C24: when an extractor call has returned or raised, the handle it opened is
\* not open, and at no point was the handle used after its close.
C24_HandlesReleased ==
    /\ hx.pc \in {"returned", "raised"} => hx.handle # "open"
    /\ ~hx.used_after_close

====
